---- MODULE Spec2Model ----
(***************************************************************************)
(* A model of jfigge/guilib: the Canvas run loop (graphics/core.go), the   *)
(* configuration options, Vector, Matrix4X4 and Triangle                   *)
(* (graphics/geometry, graphics/components), and Object with its loader    *)
(* (graphics/components/object.go).                                        *)
(***************************************************************************)
EXTENDS Integers, Sequences, FiniteSets, TLC

\* How many Canvas.Quit calls the external holder of the Canvas makes.
MaxExtQuits == 2

VARIABLES
    \* ---- Canvas (graphics/core.go) ----
    state,          \* Canvas.state
    timer,          \* Canvas.frameRateTimer: "nil", "running" or "stopped"
    tickBuf,        \* ticks waiting in frameRateTimer.C (capacity 1)
    done,           \* goroutines blocked sending on Canvas.done (unbuffered)
    glwg,           \* counter of Canvas.glwg
    lock,           \* holder of Canvas.lock: "free", "E" or "T"
    pcE,            \* position of the event-poll activity (Open / start)
    pcG,            \* position of the goroutine running gameLoop
    pcT,            \* position of the tick goroutine started by gameLoop
    qpc,            \* position of each caller inside Canvas.Quit
    event,          \* the event being dispatched
    xCalls,         \* Quit calls made so far by the external holder
    initCalls,      \* invocations of handler.Init
    destroyCalls,   \* invocations of handler.Destroy
    crashed         \* an unrecovered panic ended the process

canvasVars == <<state, timer, tickBuf, done, glwg, lock, pcE, pcG, pcT, qpc,
                event, xCalls, initCalls, destroyCalls, crashed>>

\* ---- configuration options of Open (graphics/core.go) ----
VARIABLES
    cfg,            \* the config record the options are applied to
    lastOpt,        \* the option applied last and its argument
    nOpts           \* options applied so far

configVars == <<cfg, lastOpt, nOpts>>

\* ---- the Triangles of one model (graphics/geometry/triangle.go) ----
VARIABLES
    verts,          \* the Vectors the Triangles point to: address -> Vector
    tris,           \* the Triangles; vs holds the addresses of three Vectors
    triOp,          \* the method called last
    sel,            \* the Triangle it was called on
    screen,         \* the view direction last passed to Normal
    visible,        \* what the last IsVisible returned
    tres,           \* the Triangle the last method returned, if any
    objs            \* the Objects; ts holds the addresses of their Triangles

triangleVars == <<verts, tris, triOp, sel, screen, visible, tres, objs>>

\* ---- Matrix4X4 (graphics/geometry/matrix.go) ----
VARIABLES
    ma,             \* a Matrix4X4
    cam,            \* pos, target and up of a camera
    mout,           \* the Matrix4X4 the last function returned, if any
    mop             \* the function called last

matrixVars == <<ma, cam, mout, mop>>

\* ---- Vector.MatrixMultiply and Matrix4X4.Multiply on float64 values ----
VARIABLES
    ca,             \* the Matrix4X4 A
    cb,             \* the Matrix4X4 B
    cv,             \* the Vector v
    composed,       \* what v.MatrixMultiply(A.Multiply(B)) returned, if called
    stepwise        \* what v.MatrixMultiply(B).MatrixMultiply(A) returned

composeVars == <<ca, cb, cv, composed, stepwise>>

\* ---- LoadObject (graphics/components/object.go) ----
VARIABLES
    src,            \* the directives the file was written from
    lines,          \* the file: its lines of text
    lineCnt,        \* lineCnt
    pts,            \* pts: the Vectors read so far, by address
    ts,             \* ts: the Triangles read so far
    lstatus,        \* "scanning", "ok", "error" or "crashed"
    lerr,           \* the error returned
    obj             \* the Object returned

loadVars == <<src, lines, lineCnt, pts, ts, lstatus, lerr, obj>>

\* What the run loop never touches.
otherVars == <<configVars, triangleVars, loadVars, matrixVars, composeVars>>

vars == <<canvasVars, otherVars>>

\* What the options never touch.
notConfigVars == <<canvasVars, triangleVars, loadVars, matrixVars, composeVars>>

\* What the Triangle methods never touch.
notTriangleVars == <<canvasVars, configVars, loadVars, matrixVars, composeVars>>

\* What the loader never touches.
notLoadVars == <<canvasVars, configVars, triangleVars, matrixVars, composeVars>>

\* What the Matrix4X4 functions never touch.
notMatrixVars == <<canvasVars, configVars, triangleVars, loadVars, composeVars>>

\* What the two ways of applying A and B to v never touch.
notComposeVars == <<canvasVars, configVars, triangleVars, loadVars, matrixVars>>

\* The callers of Canvas.Quit: the event-poll activity, the tick goroutine's
\* panic handler, and another goroutine that was handed the Canvas in Init.
Callers == {"E", "T", "X"}

runStates == {"initialized", "running", "terminating", "stopped"}

CanvasInit ==
    /\ state = "initialized"
    /\ timer = "nil"
    /\ tickBuf = 0
    /\ done = {}
    /\ glwg = 0
    /\ lock = "free"
    /\ pcE = "open_init"
    /\ pcG = "notstarted"
    /\ pcT = "notstarted"
    /\ qpc = [p \in Callers |-> "idle"]
    /\ event = "none"
    /\ xCalls = 0
    /\ initCalls = 0
    /\ destroyCalls = 0
    /\ crashed = FALSE

-----------------------------------------------------------------------------
(* Open and Canvas.start: the event-poll activity *)

\* Open: c.handler.Init(c)
OpenInit ==
    /\ ~crashed /\ pcE = "open_init"
    /\ initCalls' = initCalls + 1
    /\ pcE' = "start"
    /\ UNCHANGED <<state, timer, tickBuf, done, glwg, lock, pcG, pcT, qpc,
                   event, xCalls, destroyCalls, crashed>>
    /\ UNCHANGED otherVars

\* start: if c.state != initialized { return }; c.state = running
StartSetRunning ==
    /\ ~crashed /\ pcE = "start"
    /\ IF state # "initialized"
         THEN pcE' = "done" /\ state' = state
         ELSE pcE' = "start_init" /\ state' = "running"
    /\ UNCHANGED <<timer, tickBuf, done, glwg, lock, pcG, pcT, qpc,
                   event, xCalls, initCalls, destroyCalls, crashed>>
    /\ UNCHANGED otherVars

\* start: c.handler.Init(c)
StartInit ==
    /\ ~crashed /\ pcE = "start_init"
    /\ initCalls' = initCalls + 1
    /\ pcE' = "spawn"
    /\ UNCHANGED <<state, timer, tickBuf, done, glwg, lock, pcG, pcT, qpc,
                   event, xCalls, destroyCalls, crashed>>
    /\ UNCHANGED otherVars

\* start: go c.gameLoop(framerate)
StartSpawn ==
    /\ ~crashed /\ pcE = "spawn"
    /\ pcG' = "add"
    /\ pcE' = "loopcheck"
    /\ UNCHANGED <<state, timer, tickBuf, done, glwg, lock, pcT, qpc,
                   event, xCalls, initCalls, destroyCalls, crashed>>
    /\ UNCHANGED otherVars

\* start: for c.state == running
EventLoopCheck ==
    /\ ~crashed /\ pcE = "loopcheck"
    /\ pcE' = IF state = "running" THEN "poll" ELSE "destroy"
    /\ UNCHANGED <<state, timer, tickBuf, done, glwg, lock, pcG, pcT, qpc,
                   event, xCalls, initCalls, destroyCalls, crashed>>
    /\ UNCHANGED otherVars

\* start: event := sdl.PollEvent(); event != nil
PollEvent ==
    /\ ~crashed /\ pcE = "poll"
    /\ \E ev \in {"none", "quit", "other"} :
         /\ event' = ev
         /\ pcE' = IF ev = "none" THEN "sleep" ELSE "lock"
    /\ UNCHANGED <<state, timer, tickBuf, done, glwg, lock, pcG, pcT, qpc,
                   xCalls, initCalls, destroyCalls, crashed>>
    /\ UNCHANGED otherVars

\* start: c.lock.Lock() of the event dispatch
EventLock ==
    /\ ~crashed /\ pcE = "lock"
    /\ lock = "free"
    /\ lock' = "E"
    /\ pcE' = "events"
    /\ UNCHANGED <<state, timer, tickBuf, done, glwg, pcG, pcT, qpc,
                   event, xCalls, initCalls, destroyCalls, crashed>>
    /\ UNCHANGED otherVars

\* start: processed = c.handler.Events(event); an unhandled QuitEvent calls
\* c.Quit()
EventDispatch ==
    /\ ~crashed /\ pcE = "events"
    /\ \E processed \in BOOLEAN :
         IF ~processed /\ event = "quit"
           THEN /\ pcE' = "quit"
                /\ qpc' = [qpc EXCEPT !["E"] = "check"]
           ELSE /\ pcE' = "unlock"
                /\ qpc' = qpc
    /\ UNCHANGED <<state, timer, tickBuf, done, glwg, lock, pcG, pcT,
                   event, xCalls, initCalls, destroyCalls, crashed>>
    /\ UNCHANGED otherVars

\* start: the deferred c.lock.Unlock() of the event dispatch
EventUnlock ==
    /\ ~crashed /\ pcE = "unlock"
    /\ lock' = "free"
    /\ pcE' = "poll"
    /\ UNCHANGED <<state, timer, tickBuf, done, glwg, pcG, pcT, qpc,
                   event, xCalls, initCalls, destroyCalls, crashed>>
    /\ UNCHANGED otherVars

\* start: time.Sleep(time.Millisecond * 10)
EventSleep ==
    /\ ~crashed /\ pcE = "sleep"
    /\ pcE' = "loopcheck"
    /\ UNCHANGED <<state, timer, tickBuf, done, glwg, lock, pcG, pcT, qpc,
                   event, xCalls, initCalls, destroyCalls, crashed>>
    /\ UNCHANGED otherVars

\* start: c.handler.Destroy()
HandlerDestroy ==
    /\ ~crashed /\ pcE = "destroy"
    /\ destroyCalls' = destroyCalls + 1
    /\ pcE' = "teardown"
    /\ UNCHANGED <<state, timer, tickBuf, done, glwg, lock, pcG, pcT, qpc,
                   event, xCalls, initCalls, crashed>>
    /\ UNCHANGED otherVars

\* start: renderer.Destroy, c.Destroy, sdl.Quit
Teardown ==
    /\ ~crashed /\ pcE = "teardown"
    /\ pcE' = "done"
    /\ UNCHANGED <<state, timer, tickBuf, done, glwg, lock, pcG, pcT, qpc,
                   event, xCalls, initCalls, destroyCalls, crashed>>
    /\ UNCHANGED otherVars

-----------------------------------------------------------------------------
(* Canvas.gameLoop: the outer goroutine and the tick goroutine *)

\* gameLoop: c.glwg.Add(1)
GameLoopAdd ==
    /\ ~crashed /\ pcG = "add"
    /\ glwg' = glwg + 1
    /\ pcG' = "spawn"
    /\ UNCHANGED <<state, timer, tickBuf, done, lock, pcE, pcT, qpc,
                   event, xCalls, initCalls, destroyCalls, crashed>>
    /\ UNCHANGED otherVars

\* gameLoop: go func() { ... }()
GameLoopSpawn ==
    /\ ~crashed /\ pcG = "spawn"
    /\ pcT' = "newticker"
    /\ pcG' = "exited"
    /\ UNCHANGED <<state, timer, tickBuf, done, glwg, lock, pcE, qpc,
                   event, xCalls, initCalls, destroyCalls, crashed>>
    /\ UNCHANGED otherVars

\* gameLoop: c.frameRateTimer = time.NewTicker(fr)
NewTicker ==
    /\ ~crashed /\ pcT = "newticker"
    /\ timer' = "running"
    /\ pcT' = "loopcheck"
    /\ UNCHANGED <<state, tickBuf, done, glwg, lock, pcE, pcG, qpc,
                   event, xCalls, initCalls, destroyCalls, crashed>>
    /\ UNCHANGED otherVars

\* The runtime's ticker: a tick is delivered when the channel has room and
\* dropped otherwise.
TimerTick ==
    /\ ~crashed /\ timer = "running"
    /\ tickBuf = 0
    /\ tickBuf' = 1
    /\ UNCHANGED <<state, timer, done, glwg, lock, pcE, pcG, pcT, qpc,
                   event, xCalls, initCalls, destroyCalls, crashed>>
    /\ UNCHANGED otherVars

\* gameLoop: for c.state == running
TickLoopCheck ==
    /\ ~crashed /\ pcT = "loopcheck"
    /\ pcT' = IF state = "running" THEN "select" ELSE "exiting"
    /\ UNCHANGED <<state, timer, tickBuf, done, glwg, lock, pcE, pcG, qpc,
                   event, xCalls, initCalls, destroyCalls, crashed>>
    /\ UNCHANGED otherVars

\* gameLoop: case <-c.done: return
SelectDone ==
    /\ ~crashed /\ pcT = "select"
    /\ \E p \in done :
         /\ done' = done \ {p}
         /\ qpc' = [qpc EXCEPT ![p] = "wait"]
    /\ pcT' = "exiting"
    /\ UNCHANGED <<state, timer, tickBuf, glwg, lock, pcE, pcG,
                   event, xCalls, initCalls, destroyCalls, crashed>>
    /\ UNCHANGED otherVars

\* gameLoop: case <-c.frameRateTimer.C:
SelectTick ==
    /\ ~crashed /\ pcT = "select"
    /\ tickBuf = 1
    /\ tickBuf' = 0
    /\ pcT' = "lock"
    /\ UNCHANGED <<state, timer, done, glwg, lock, pcE, pcG, qpc,
                   event, xCalls, initCalls, destroyCalls, crashed>>
    /\ UNCHANGED otherVars

\* TickLock as it would be had the tick body not waited for the lock.
TickLockNoWait ==
    /\ ~crashed /\ pcT = "lock"
    /\ lock' = "T"
    /\ pcT' = "update"
    /\ UNCHANGED <<state, timer, tickBuf, done, glwg, pcE, pcG, qpc,
                   event, xCalls, initCalls, destroyCalls, crashed>>
    /\ UNCHANGED otherVars

\* gameLoop: c.lock.Lock() of the tick body
TickLock ==
    /\ ~crashed /\ pcT = "lock"
    /\ lock = "free"
    /\ lock' = "T"
    /\ pcT' = "update"
    /\ UNCHANGED <<state, timer, tickBuf, done, glwg, pcE, pcG, qpc,
                   event, xCalls, initCalls, destroyCalls, crashed>>
    /\ UNCHANGED otherVars

\* gameLoop: c.handler.OnUpdate(), which may panic
OnUpdate ==
    /\ ~crashed /\ pcT = "update"
    /\ \E panics \in BOOLEAN :
         pcT' = IF panics THEN "panic_unlock" ELSE "draw"
    /\ UNCHANGED <<state, timer, tickBuf, done, glwg, lock, pcE, pcG, qpc,
                   event, xCalls, initCalls, destroyCalls, crashed>>
    /\ UNCHANGED otherVars

\* gameLoop: c.handler.OnDraw(c.renderer), which may panic
OnDraw ==
    /\ ~crashed /\ pcT = "draw"
    /\ \E panics \in BOOLEAN :
         pcT' = IF panics THEN "panic_unlock" ELSE "present"
    /\ UNCHANGED <<state, timer, tickBuf, done, glwg, lock, pcE, pcG, qpc,
                   event, xCalls, initCalls, destroyCalls, crashed>>
    /\ UNCHANGED otherVars

\* gameLoop: c.renderer.Present()
Present ==
    /\ ~crashed /\ pcT = "present"
    /\ pcT' = "unlock"
    /\ UNCHANGED <<state, timer, tickBuf, done, glwg, lock, pcE, pcG, qpc,
                   event, xCalls, initCalls, destroyCalls, crashed>>
    /\ UNCHANGED otherVars

\* gameLoop: the deferred c.lock.Unlock() of the tick body; after a panic the
\* unwinding goes on to the goroutine's deferred panicHandler
TickUnlock ==
    /\ ~crashed /\ pcT \in {"unlock", "panic_unlock"}
    /\ lock' = "free"
    /\ pcT' = IF pcT = "unlock" THEN "loopcheck" ELSE "recover"
    /\ UNCHANGED <<state, timer, tickBuf, done, glwg, pcE, pcG, qpc,
                   event, xCalls, initCalls, destroyCalls, crashed>>
    /\ UNCHANGED otherVars

\* panicHandler: recover() returned the panic; c.Quit()
PanicHandlerQuit ==
    /\ ~crashed /\ pcT = "recover"
    /\ pcT' = "quit"
    /\ qpc' = [qpc EXCEPT !["T"] = "check"]
    /\ UNCHANGED <<state, timer, tickBuf, done, glwg, lock, pcE, pcG,
                   event, xCalls, initCalls, destroyCalls, crashed>>
    /\ UNCHANGED otherVars

\* gameLoop: the deferred c.glwg.Done()
GameLoopExit ==
    /\ ~crashed /\ pcT = "exiting"
    /\ glwg' = glwg - 1
    /\ pcT' = "exited"
    /\ UNCHANGED <<state, timer, tickBuf, done, lock, pcE, pcG, qpc,
                   event, xCalls, initCalls, destroyCalls, crashed>>
    /\ UNCHANGED otherVars

-----------------------------------------------------------------------------
(* Canvas.Quit, by caller p *)

\* Another goroutine holding the Canvas (handed out by handler.Init) calls
\* c.Quit()
ExternalQuit ==
    /\ ~crashed /\ initCalls > 0
    /\ qpc["X"] = "idle"
    /\ xCalls < MaxExtQuits
    /\ xCalls' = xCalls + 1
    /\ qpc' = [qpc EXCEPT !["X"] = "check"]
    /\ UNCHANGED <<state, timer, tickBuf, done, glwg, lock, pcE, pcG, pcT,
                   event, initCalls, destroyCalls, crashed>>
    /\ UNCHANGED otherVars

\* QuitCheck as it would be had Quit not tested the state.
QuitCheckAlways(p) ==
    /\ ~crashed /\ qpc[p] = "check"
    /\ qpc' = [qpc EXCEPT ![p] = "set"]
    /\ UNCHANGED <<state, timer, tickBuf, done, glwg, lock, pcE, pcG, pcT,
                   event, xCalls, initCalls, destroyCalls, crashed>>
    /\ UNCHANGED otherVars

\* Quit: if c.state == running
QuitCheck(p) ==
    /\ ~crashed /\ qpc[p] = "check"
    /\ qpc' = [qpc EXCEPT ![p] = IF state = "running" THEN "set" ELSE "already"]
    /\ UNCHANGED <<state, timer, tickBuf, done, glwg, lock, pcE, pcG, pcT,
                   event, xCalls, initCalls, destroyCalls, crashed>>
    /\ UNCHANGED otherVars

\* Quit: c.state = terminating
QuitSetTerminating(p) ==
    /\ ~crashed /\ qpc[p] = "set"
    /\ state' = "terminating"
    /\ qpc' = [qpc EXCEPT ![p] = "stop"]
    /\ UNCHANGED <<timer, tickBuf, done, glwg, lock, pcE, pcG, pcT,
                   event, xCalls, initCalls, destroyCalls, crashed>>
    /\ UNCHANGED otherVars

\* Quit: c.frameRateTimer.Stop(); a nil timer is a nil dereference, which no
\* caller other than the tick goroutine recovers
QuitStopTimer(p) ==
    /\ ~crashed /\ qpc[p] = "stop"
    /\ IF timer = "nil"
         THEN crashed' = TRUE /\ UNCHANGED <<timer, qpc>>
         ELSE /\ timer' = "stopped"
              /\ qpc' = [qpc EXCEPT ![p] = "send"]
              /\ crashed' = crashed
    /\ UNCHANGED <<state, tickBuf, done, glwg, lock, pcE, pcG, pcT,
                   event, xCalls, initCalls, destroyCalls>>
    /\ UNCHANGED otherVars

\* Quit: c.done <- true; the sender blocks until the tick goroutine receives
QuitSend(p) ==
    /\ ~crashed /\ qpc[p] = "send"
    /\ done' = done \cup {p}
    /\ qpc' = [qpc EXCEPT ![p] = "sending"]
    /\ UNCHANGED <<state, timer, tickBuf, glwg, lock, pcE, pcG, pcT,
                   event, xCalls, initCalls, destroyCalls, crashed>>
    /\ UNCHANGED otherVars

\* QuitWait as it would be had Quit not waited for the tick goroutine.
QuitWaitNoBlock(p) ==
    /\ ~crashed /\ qpc[p] = "wait"
    /\ qpc' = [qpc EXCEPT ![p] = "setstopped"]
    /\ UNCHANGED <<state, timer, tickBuf, done, glwg, lock, pcE, pcG, pcT,
                   event, xCalls, initCalls, destroyCalls, crashed>>
    /\ UNCHANGED otherVars

\* Quit: c.glwg.Wait()
QuitWait(p) ==
    /\ ~crashed /\ qpc[p] = "wait"
    /\ glwg = 0
    /\ qpc' = [qpc EXCEPT ![p] = "setstopped"]
    /\ UNCHANGED <<state, timer, tickBuf, done, glwg, lock, pcE, pcG, pcT,
                   event, xCalls, initCalls, destroyCalls, crashed>>
    /\ UNCHANGED otherVars

\* Quit: c.state = stopped
QuitSetStopped(p) ==
    /\ ~crashed /\ qpc[p] = "setstopped"
    /\ state' = "stopped"
    /\ qpc' = [qpc EXCEPT ![p] = "finished"]
    /\ UNCHANGED <<timer, tickBuf, done, glwg, lock, pcE, pcG, pcT,
                   event, xCalls, initCalls, destroyCalls, crashed>>
    /\ UNCHANGED otherVars

\* Quit returns to its caller (from either branch)
QuitReturn(p) ==
    /\ ~crashed /\ qpc[p] \in {"already", "finished"}
    /\ qpc' = [qpc EXCEPT ![p] = "idle"]
    /\ pcE' = IF p = "E" THEN "unlock" ELSE pcE
    /\ pcT' = IF p = "T" THEN "exiting" ELSE pcT
    /\ UNCHANGED <<state, timer, tickBuf, done, glwg, lock, pcG,
                   event, xCalls, initCalls, destroyCalls, crashed>>
    /\ UNCHANGED otherVars

-----------------------------------------------------------------------------

EventPollNext ==
    \/ OpenInit
    \/ StartSetRunning
    \/ StartInit
    \/ StartSpawn
    \/ EventLoopCheck
    \/ PollEvent
    \/ EventLock
    \/ EventDispatch
    \/ EventUnlock
    \/ EventSleep
    \/ HandlerDestroy
    \/ Teardown

TickNext ==
    \/ GameLoopAdd
    \/ GameLoopSpawn
    \/ NewTicker
    \/ TickLoopCheck
    \/ SelectDone
    \/ SelectTick
    \/ TickLock
    \/ OnUpdate
    \/ OnDraw
    \/ Present
    \/ TickUnlock
    \/ PanicHandlerQuit
    \/ GameLoopExit

QuitNext(p) ==
    \/ QuitCheck(p)
    \/ QuitSetTerminating(p)
    \/ QuitStopTimer(p)
    \/ QuitSend(p)
    \/ QuitWait(p)
    \/ QuitSetStopped(p)
    \/ QuitReturn(p)

Next ==
    \/ EventPollNext
    \/ TickNext
    \/ TimerTick
    \/ ExternalQuit
    \/ \E p \in Callers : QuitNext(p)


-----------------------------------------------------------------------------
(* The configuration options of Open *)

\* How many options one Open is given.
MaxOptions == 2

\* The SDL constants the options name (github.com/veandco/go-sdl2/sdl).
RENDERER_SOFTWARE == 1
RENDERER_ACCELERATED == 2
RENDERER_PRESENTVSYNC == 4
RENDERER_TARGETTEXTURE == 8
WINDOW_FULLSCREEN == 1
WINDOW_OPENGL == 2
WINDOW_HIDDEN == 8
WINDOW_BORDERLESS == 16
WINDOW_RESIZABLE == 32
WINDOW_MINIMIZED == 64
WINDOW_MAXIMIZED == 128
WINDOW_INPUT_GRABBED == 256
WINDOW_FULLSCREEN_DESKTOP == 4097
WINDOW_ALLOW_HIGHDPI == 8192
WINDOW_VULKAN == 268435456
WINDOWPOS_UNDEFINED == 536805376
DefaultFramerate == 60

\* Go's & on unsigned integers.
RECURSIVE BitAnd(_, _)
BitAnd(a, b) ==
    IF a = 0 \/ b = 0
      THEN 0
      ELSE (a % 2) * (b % 2) + 2 * BitAnd(a \div 2, b \div 2)

\* Go's | on unsigned integers.
RECURSIVE BitOr(_, _)
BitOr(a, b) ==
    IF a = 0 THEN b
    ELSE IF b = 0 THEN a
    ELSE (IF a % 2 = 1 \/ b % 2 = 1 THEN 1 ELSE 0)
           + 2 * BitOr(a \div 2, b \div 2)

\* Open: cfg := &config{...}
ConfigDefaults ==
    [windowX       |-> WINDOWPOS_UNDEFINED,
     windowY       |-> WINDOWPOS_UNDEFINED,
     windowFlags   |-> WINDOW_OPENGL,
     framerate     |-> DefaultFramerate,
     rendererFlags |-> RENDERER_ACCELERATED]

ConfigInit ==
    /\ cfg = ConfigDefaults
    /\ lastOpt = [name |-> "none", arg |-> <<>>]
    /\ nOpts = 0

\* The bitmasks handed to the flag options: every combination of these bits,
\* allow-listed ones and others.
FlagBits == {1, 2, 4, 8, 16, 4096, 8192, 268435456}

RECURSIVE SumOf(_)
SumOf(S) == IF S = {} THEN 0 ELSE LET x == CHOOSE y \in S : TRUE
                                  IN  x + SumOf(S \ {x})

FlagInputs == {SumOf(S) : S \in SUBSET FlagBits}
FramerateInputs == {-1, 0, 1, 30, 144}
PositionInputs == {0, 100}

\* RendererFlags: flags & SOFTWARE & ACCELERATED & PRESENTVSYNC & TARGETTEXTURE
RendererFlagsValue(flags) ==
    BitAnd(BitAnd(BitAnd(BitAnd(flags, RENDERER_SOFTWARE),
                         RENDERER_ACCELERATED),
                  RENDERER_PRESENTVSYNC),
           RENDERER_TARGETTEXTURE)

\* WindowFlags: flags & FULLSCREEN & FULLSCREEN_DESKTOP & ... & ALLOW_HIGHDPI
WindowFlagsValue(flags) ==
    LET masks == <<WINDOW_FULLSCREEN, WINDOW_FULLSCREEN_DESKTOP, WINDOW_OPENGL,
                   WINDOW_VULKAN, WINDOW_HIDDEN, WINDOW_BORDERLESS,
                   WINDOW_RESIZABLE, WINDOW_MINIMIZED, WINDOW_MAXIMIZED,
                   WINDOW_INPUT_GRABBED, WINDOW_ALLOW_HIGHDPI>>
        AndUpTo[i \in 0..Len(masks)] ==
            IF i = 0 THEN flags ELSE BitAnd(AndUpTo[i - 1], masks[i])
    IN  AndUpTo[Len(masks)]

\* Open: option(cfg), the option being Framerate(fr)
ApplyFramerate ==
    /\ nOpts < MaxOptions
    /\ \E fr \in FramerateInputs :
         /\ cfg' = IF fr > 0 THEN [cfg EXCEPT !.framerate = fr] ELSE cfg
         /\ lastOpt' = [name |-> "Framerate", arg |-> <<fr>>]
    /\ nOpts' = nOpts + 1
    /\ UNCHANGED notConfigVars

\* Open: option(cfg), the option being RendererFlags(flags)
ApplyRendererFlags ==
    /\ nOpts < MaxOptions
    /\ \E flags \in FlagInputs :
         /\ cfg' = [cfg EXCEPT !.rendererFlags = RendererFlagsValue(flags)]
         /\ lastOpt' = [name |-> "RendererFlags", arg |-> <<flags>>]
    /\ nOpts' = nOpts + 1
    /\ UNCHANGED notConfigVars

\* Open: option(cfg), the option being WindowPosition(x, y)
ApplyWindowPosition ==
    /\ nOpts < MaxOptions
    /\ \E x \in PositionInputs, y \in PositionInputs :
         /\ cfg' = [cfg EXCEPT !.windowX = x, !.windowY = y]
         /\ lastOpt' = [name |-> "WindowPosition", arg |-> <<x, y>>]
    /\ nOpts' = nOpts + 1
    /\ UNCHANGED notConfigVars

\* Open: option(cfg), the option being WindowFlags(flags)
ApplyWindowFlags ==
    /\ nOpts < MaxOptions
    /\ \E flags \in FlagInputs :
         /\ cfg' = [cfg EXCEPT !.windowFlags = WindowFlagsValue(flags)]
         /\ lastOpt' = [name |-> "WindowFlags", arg |-> <<flags>>]
    /\ nOpts' = nOpts + 1
    /\ UNCHANGED notConfigVars

ConfigNext ==
    \/ ApplyFramerate
    \/ ApplyRendererFlags
    \/ ApplyWindowPosition
    \/ ApplyWindowFlags

-----------------------------------------------------------------------------
(* Vector and Triangle *)

Abs(n) == IF n < 0 THEN -n ELSE n
Sgn(n) == IF n < 0 THEN -1 ELSE IF n = 0 THEN 0 ELSE 1

RECURSIVE GCD(_, _)
GCD(a, b) == IF b = 0 THEN a ELSE GCD(b, a % b)

\* Vector: the coordinates here are integers.
Vec(x, y, z, w) == [x |-> x, y |-> y, z |-> z, w |-> w]

\* New: w is 1
VNew(x, y, z) == Vec(x, y, z, 1)

\* Vector.DotProduct
VDotProduct(v, v1) == v.x * v1.x + v.y * v1.y + v.z * v1.z

\* Vector.Subtract
VSubtract(v, v1) == Vec(v.x - v1.x, v.y - v1.y, v.z - v1.z, v.w)

\* Vector.CrossProduct
VCrossProduct(v, v1) ==
    Vec(v.y * v1.z - v.z * v1.y,
        v.z * v1.x - v.x * v1.z,
        v.x * v1.y - v.y * v1.x,
        v.w)

\* A vector whose coordinates are those of v divided by the square root of
\* len2: what Normalize returns, kept exact. len2 = 0 stands for the
\* non-finite coordinates a zero-length vector normalizes to.
Scaled(v, len2) == [x |-> v.x, y |-> v.y, z |-> v.z, w |-> v.w, len2 |-> len2]

\* Vector.Normalize: each coordinate divided by Length(), w kept
VNormalize(v) ==
    LET l2 == VDotProduct(v, v)
        g  == GCD(GCD(Abs(v.x), Abs(v.y)), Abs(v.z))
    IN  IF l2 = 0
          THEN Scaled(v, 0)
          ELSE Scaled(Vec(v.x \div g, v.y \div g, v.z \div g, v.w),
                      l2 \div (g * g))

\* An angle of [0, pi], kept exact by its cosine s * sqrt(p / q), p / q in
\* lowest terms; NaNAngle is math.Acos of a non-finite or out-of-range value.
NaNAngle == [s |-> 2, p |-> 0, q |-> 0]
ZeroAngle == [s |-> 1, p |-> 1, q |-> 1]
HalfPi == [s |-> 0, p |-> 0, q |-> 1]
Pi == [s |-> -1, p |-> 1, q |-> 1]

\* math.Acos(num / sqrt(den2))
Acos(num, den2) ==
    IF den2 = 0 \/ num * num > den2
      THEN NaNAngle
      ELSE IF num = 0
        THEN HalfPi
        ELSE LET g == GCD(num * num, den2)
             IN  [s |-> Sgn(num), p |-> (num * num) \div g, q |-> den2 \div g]

\* a < b on float64 angles: false when either is NaN; Acos is decreasing
AngleLess(a, b) ==
    /\ a # NaNAngle
    /\ b # NaNAngle
    /\ a.s * a.p * b.q > b.s * b.p * a.q

\* math.Acos(n.DotProduct(d) / n.Length()) for a normalized n
Incidence(n, d) ==
    IF n.len2 = 0
      THEN NaNAngle
      ELSE Acos(VDotProduct(n, d), VDotProduct(n, n))

\* var origin = &Vector{x: 0, y: 0, z: 1}
origin == Vec(0, 0, 1, 0)

-----------------------------------------------------------------------------
(* Matrix4X4 and the Vector methods used with it *)

\* A float64 kept exact: the fraction n / d in lowest terms, d > 0.
\* NonFinite stands for the infinities and NaN a division by zero gives.
NonFinite == [n |-> 1, d |-> 0]

Q(n, d) ==
    IF d = 0
      THEN NonFinite
      ELSE LET g == GCD(Abs(n), Abs(d))
           IN  [n |-> Sgn(n) * Sgn(d) * (Abs(n) \div g), d |-> Abs(d) \div g]

QI(i) == [n |-> i, d |-> 1]

QAdd(a, b) ==
    IF a.d = 0 \/ b.d = 0 THEN NonFinite ELSE Q(a.n * b.d + b.n * a.d, a.d * b.d)

QNeg(a) == IF a.d = 0 THEN NonFinite ELSE [n |-> -a.n, d |-> a.d]

QSub(a, b) == QAdd(a, QNeg(b))

QMul(a, b) ==
    IF a.d = 0 \/ b.d = 0 THEN NonFinite ELSE Q(a.n * b.n, a.d * b.d)

QDiv(a, b) ==
    IF a.d = 0 \/ b.d = 0 \/ b.n = 0 THEN NonFinite ELSE Q(a.n * b.d, a.d * b.n)

\* math.Sqrt, for the squares of fractions
ISqrt(n) == CHOOSE r \in 0..n : r * r = n
QSqrt(a) == IF a.d = 0 THEN NonFinite ELSE [n |-> ISqrt(a.n), d |-> ISqrt(a.d)]

\* A Vector of whole coordinates as a Vector of fractions, and back.
QVec(v) == Vec(QI(v.x), QI(v.y), QI(v.z), QI(v.w))
WholeVec(v) == Vec(v.x.n, v.y.n, v.z.n, v.w.n)

\* Vector.DotProduct
DotProduct(v, v1) ==
    QAdd(QAdd(QMul(v.x, v1.x), QMul(v.y, v1.y)), QMul(v.z, v1.z))

\* Vector.Length
Length(v) == QSqrt(DotProduct(v, v))

\* Vector.Normalize
Normalize(v) ==
    LET l == Length(v)
    IN  Vec(QDiv(v.x, l), QDiv(v.y, l), QDiv(v.z, l), v.w)

\* Vector.CrossProduct
CrossProduct(v, v1) ==
    Vec(QSub(QMul(v.y, v1.z), QMul(v.z, v1.y)),
        QSub(QMul(v.z, v1.x), QMul(v.x, v1.z)),
        QSub(QMul(v.x, v1.y), QMul(v.y, v1.x)),
        v.w)

\* Vector.Add
Add(v, v1) == Vec(QAdd(v.x, v1.x), QAdd(v.y, v1.y), QAdd(v.z, v1.z), v.w)

\* Vector.Subtract
Subtract(v, v1) == Vec(QSub(v.x, v1.x), QSub(v.y, v1.y), QSub(v.z, v1.z), v.w)

\* Vector.Multiply
Multiply(v, l) == Vec(QMul(v.x, l), QMul(v.y, l), QMul(v.z, l), v.w)

\* Vector.Divide as it would be without `if l == 0 { l = 1 }`.
DivideUnguarded(v, l) == Vec(QDiv(v.x, l), QDiv(v.y, l), QDiv(v.z, l), l)

\* Vector.Divide: a divisor of 0 is replaced by 1; w is the divisor
Divide(v, l) ==
    LET l1 == IF l = QI(0) THEN QI(1) ELSE l
    IN  Vec(QDiv(v.x, l1), QDiv(v.y, l1), QDiv(v.z, l1), l1)

\* Vector.MatrixMultiply: component i is the sum over j of v[j] * matrix[i][j]
MatrixRow(v, r) ==
    QAdd(QAdd(QAdd(QMul(v.x, r[1]), QMul(v.y, r[2])), QMul(v.z, r[3])),
         QMul(v.w, r[4]))

MatrixMultiply(v, matrix) ==
    Vec(MatrixRow(v, matrix[1]), MatrixRow(v, matrix[2]),
        MatrixRow(v, matrix[3]), MatrixRow(v, matrix[4]))

\* A Matrix4X4 from its rows of whole numbers.
Matrix4X4(rows) == [r \in 1..4 |-> [c \in 1..4 |-> QI(rows[r][c])]]

\* Identity
Identity ==
    Matrix4X4(<<<<1, 0, 0, 0>>, <<0, 1, 0, 0>>, <<0, 0, 1, 0>>, <<0, 0, 0, 1>>>>)

\* TranslateXYZ
TranslateXYZ(x, y, z) ==
    Matrix4X4(<<<<1, 0, 0, x>>, <<0, 1, 0, y>>, <<0, 0, 1, z>>, <<0, 0, 0, 1>>>>)

\* ScaleXYZ
ScaleXYZ(x, y, z) ==
    Matrix4X4(<<<<x, 0, 0, 0>>, <<0, y, 0, 0>>, <<0, 0, z, 0>>, <<0, 0, 0, 1>>>>)

\* math.Cos and math.Sin of xDeg * math.Pi / 180, for whole quarter turns
CosDeg(deg) ==
    LET q == (deg \div 90) % 4
    IN  IF q = 0 THEN 1 ELSE IF q = 2 THEN -1 ELSE 0

SinDeg(deg) ==
    LET q == (deg \div 90) % 4
    IN  IF q = 1 THEN 1 ELSE IF q = 3 THEN -1 ELSE 0

\* RotateXYZ, its angles in degrees as Object.Rotate takes them
RotateXYZ(x, y, z) ==
    LET cosX == CosDeg(x)
        sinX == SinDeg(x)
        cosY == CosDeg(y)
        sinY == SinDeg(y)
        cosZ == CosDeg(z)
        sinZ == SinDeg(z)
    IN  Matrix4X4(
          <<<<cosY * cosZ, sinX * sinY * cosZ - cosX * sinZ,
              cosX * sinY * cosZ + sinX * sinZ, 0>>,
            <<cosY * sinZ, sinX * sinY * sinZ + cosX * cosZ,
              cosX * sinY * sinZ - sinX * cosZ, 0>>,
            <<-sinY, sinX * cosY, cosX * cosY, 0>>,
            <<0, 0, 0, 1>>>>)

\* Matrix4X4.Multiply as it would be had it taken m1[c][k] for m1[k][c].
Matrix4X4MultiplyByRows(m, m1) ==
    [r \in 1..4 |-> [c \in 1..4 |->
       QAdd(QAdd(QAdd(QMul(m[r][1], m1[c][1]), QMul(m[r][2], m1[c][2])),
                 QMul(m[r][3], m1[c][3])),
            QMul(m[r][4], m1[c][4]))]]

\* Matrix4X4.Multiply: mo[r][c] is the sum over k of m[r][k] * m1[k][c]
Matrix4X4Multiply(m, m1) ==
    [r \in 1..4 |-> [c \in 1..4 |->
       QAdd(QAdd(QAdd(QMul(m[r][1], m1[1][c]), QMul(m[r][2], m1[2][c])),
                 QMul(m[r][3], m1[3][c])),
            QMul(m[r][4], m1[4][c]))]]

\* The basis PointAt and LookAtMatrix build from pos, target and up.
NewForward(pos, target) == Normalize(Subtract(target, pos))

NewUp(pos, target, up) ==
    LET newForward == NewForward(pos, target)
    IN  Normalize(Subtract(up, Multiply(newForward, DotProduct(up, newForward))))

NewRight(pos, target, up) ==
    CrossProduct(NewUp(pos, target, up), NewForward(pos, target))

\* PointAt
PointAt(pos, target, up) ==
    LET newForward == NewForward(pos, target)
        newUp == NewUp(pos, target, up)
        newRight == NewRight(pos, target, up)
    IN  <<<<newRight.x, newRight.y, newRight.z, QI(0)>>,
          <<newUp.x, newUp.y, newUp.z, QI(0)>>,
          <<newForward.x, newForward.y, newForward.z, QI(0)>>,
          <<pos.x, pos.y, pos.z, QI(1)>>>>

\* LookAtMatrix: the last sum of its fourth row ends in pos.z * newForward.y
LookAtMatrix(pos, target, up) ==
    LET newForward == NewForward(pos, target)
        newUp == NewUp(pos, target, up)
        newRight == NewRight(pos, target, up)
    IN  <<<<newRight.x, newUp.x, newForward.x, QI(0)>>,
          <<newRight.y, newUp.y, newForward.y, QI(0)>>,
          <<newRight.z, newUp.z, newForward.z, QI(0)>>,
          <<QNeg(QAdd(QAdd(QMul(pos.x, newRight.x), QMul(pos.y, newRight.y)),
                      QMul(pos.z, newRight.z))),
            QNeg(QAdd(QAdd(QMul(pos.x, newUp.x), QMul(pos.y, newUp.y)),
                      QMul(pos.z, newUp.z))),
            QNeg(QAdd(QAdd(QMul(pos.x, newForward.x), QMul(pos.y, newForward.y)),
                      QMul(pos.z, newForward.y))),
            QI(1)>>>>

-----------------------------------------------------------------------------
(* float64: the arithmetic of Vector.MatrixMultiply and Matrix4X4.Multiply *)

\* A float64 is a record: a finite value m * 2^e with m odd (or m = 0, e = 0),
\* an infinity (m is its sign) or NaN.  Its field exact tells whether it is
\* the real-number value of the expression that produced it: it is FALSE
\* from the first sum or product that was rounded, overflowed or underflowed.
\* The values here have m below 2^31: they fit the 53 bits of a float64.
MantissaBits == 53
MaxExponent == 1024
MinExponent == -1074

F64NaN == [k |-> "nan", m |-> 0, e |-> 0, exact |-> FALSE]
F64Inf(sign) == [k |-> "inf", m |-> sign, e |-> 0, exact |-> FALSE]

RECURSIVE BitLen(_)
BitLen(n) == IF n = 0 THEN 0 ELSE 1 + BitLen(n \div 2)

\* m * 2^e with the factors of two of m moved to e
RECURSIVE OddPart(_, _)
OddPart(m, e) ==
    IF m = 0 THEN <<0, 0>>
    ELSE IF m % 2 = 0 THEN OddPart(m \div 2, e + 1)
    ELSE <<m, e>>

\* n / 2^k to the nearest whole number, ties to even (n >= 0, k > 0)
HalfEven(n, k) ==
    IF BitLen(n) < k THEN 0
    ELSE LET d == 2 ^ k
             q == n \div d
             r == n % d
         IN  IF 2 * r > d \/ (2 * r = d /\ q % 2 = 1) THEN q + 1 ELSE q

\* The float64 nearest to the real number m * 2^e: infinite from 2^1024 on,
\* a multiple of 2^-1074 below 2^-1022.
F64Round(m, e, exact) ==
    LET p == OddPart(m, e)
        mag == Abs(p[1])
        sign == Sgn(p[1])
    IN  IF p[1] = 0 THEN [k |-> "fin", m |-> 0, e |-> 0, exact |-> exact]
        ELSE IF p[2] + BitLen(mag) > MaxExponent THEN F64Inf(sign)
        ELSE IF p[2] < MinExponent
          THEN LET q == OddPart(sign * HalfEven(mag, MinExponent - p[2]),
                                MinExponent)
               IN  [k |-> "fin", m |-> q[1], e |-> q[2], exact |-> FALSE]
        ELSE [k |-> "fin", m |-> p[1], e |-> p[2], exact |-> exact]

\* The float64 of a whole number, and of a whole number times a power of two
F64(n) == F64Round(n, 0, TRUE)
F64Scaled(n, e) == F64Round(n, e, TRUE)

\* a * b
F64Mul(a, b) ==
    IF a.k = "nan" \/ b.k = "nan" THEN F64NaN
    ELSE IF a.k = "inf" \/ b.k = "inf"
      THEN IF a.m = 0 \/ b.m = 0 THEN F64NaN ELSE F64Inf(Sgn(a.m) * Sgn(b.m))
    ELSE F64Round(a.m * b.m, a.e + b.e, a.exact /\ b.exact)

\* a + b.  Finite values are added exactly when their exponents are at most
\* 20 apart; the smaller one is lost to rounding when it is below half a unit
\* in the last place of the larger one.
F64Add(a, b) ==
    IF a.k = "nan" \/ b.k = "nan" THEN F64NaN
    ELSE IF a.k = "inf" /\ b.k = "inf"
      THEN IF a.m = b.m THEN F64Inf(a.m) ELSE F64NaN
    ELSE IF a.k = "inf" THEN F64Inf(a.m)
    ELSE IF b.k = "inf" THEN F64Inf(b.m)
    ELSE IF a.m = 0 THEN [b EXCEPT !.exact = a.exact /\ b.exact]
    ELSE IF b.m = 0 THEN [a EXCEPT !.exact = a.exact /\ b.exact]
    ELSE LET lo == IF a.e <= b.e THEN a.e ELSE b.e
             la == a.e + BitLen(Abs(a.m))
             lb == b.e + BitLen(Abs(b.m))
         IN  CASE Abs(a.e - b.e) <= 20 ->
                    F64Round(a.m * 2 ^ (a.e - lo) + b.m * 2 ^ (b.e - lo), lo,
                             a.exact /\ b.exact)
               [] Abs(a.e - b.e) > 20 /\ lb <= la - MantissaBits - 2 ->
                    [a EXCEPT !.exact = FALSE]
               [] Abs(a.e - b.e) > 20 /\ la <= lb - MantissaBits - 2 ->
                    [b EXCEPT !.exact = FALSE]

\* a == b in Go: NaN equals nothing
F64Equal(a, b) ==
    /\ a.k # "nan"
    /\ b.k # "nan"
    /\ a.k = b.k /\ a.m = b.m /\ a.e = b.e

\* Vector.MatrixMultiply on float64 values
F64MatrixRow(v, r) ==
    F64Add(F64Add(F64Add(F64Mul(v.x, r[1]), F64Mul(v.y, r[2])),
                  F64Mul(v.z, r[3])),
           F64Mul(v.w, r[4]))

F64MatrixMultiply(v, matrix) ==
    Vec(F64MatrixRow(v, matrix[1]), F64MatrixRow(v, matrix[2]),
        F64MatrixRow(v, matrix[3]), F64MatrixRow(v, matrix[4]))

\* Matrix4X4.Multiply on float64 values, had it taken m1[c][k] for m1[k][c].
F64Matrix4X4MultiplyByRows(m, m1) ==
    [r \in 1..4 |-> [c \in 1..4 |->
       F64Add(F64Add(F64Add(F64Mul(m[r][1], m1[c][1]),
                            F64Mul(m[r][2], m1[c][2])),
                     F64Mul(m[r][3], m1[c][3])),
              F64Mul(m[r][4], m1[c][4]))]]

\* Matrix4X4.Multiply on float64 values
F64Matrix4X4Multiply(m, m1) ==
    [r \in 1..4 |-> [c \in 1..4 |->
       F64Add(F64Add(F64Add(F64Mul(m[r][1], m1[1][c]),
                            F64Mul(m[r][2], m1[2][c])),
                     F64Mul(m[r][3], m1[3][c])),
              F64Mul(m[r][4], m1[4][c]))]]

-----------------------------------------------------------------------------
(* Triangle *)

\* parseFace: &Triangle{vs: ..., normal: &vector.Vector{0, 0, 0, 1},
\* color: 0xFFFFFFFF}; the incidence angles are zero. a, b, c are the
\* addresses of the vertices; the color is kept as its bytes R, G, B, A.
NewTriangle(a, b, c) ==
    [vs       |-> <<a, b, c>>,
     normal   |-> Scaled(Vec(0, 0, 0, 1), 1),
     normalI  |-> ZeroAngle,
     incident |-> ZeroAngle,
     color    |-> <<255, 255, 255, 255>>]

\* Triangle.Normal: sets the z of each vertex to its w in place, then the
\* normal and the two incidence angles. heap is the Vectors by address.
TriNormal(heap, t, scr) ==
    LET h  == [j \in DOMAIN heap |->
                 IF j \in {t.vs[1], t.vs[2], t.vs[3]}
                   THEN [heap[j] EXCEPT !.z = heap[j].w]
                   ELSE heap[j]]
        v1 == VSubtract(h[t.vs[2]], h[t.vs[1]])
        v2 == VSubtract(h[t.vs[3]], h[t.vs[1]])
        n  == VNormalize(VCrossProduct(v1, v2))
    IN  [heap |-> h,
         t    |-> [t EXCEPT !.normal = n,
                            !.normalI = Incidence(n, origin),
                            !.incident = Incidence(n, scr)]]

\* What a method returned: whether it is the receiver itself, and the
\* Triangle's fields with its three Vectors by value.
TriResult(self, vs, t) ==
    [self     |-> self,
     vs       |-> vs,
     normal   |-> t.normal,
     normalI  |-> t.normalI,
     incident |-> t.incident,
     color    |-> t.color]

\* The three Vectors of t, by value.
TriVertices(heap, t) ==
    <<QVec(heap[t.vs[1]]), QVec(heap[t.vs[2]]), QVec(heap[t.vs[3]])>>

\* Triangle.Multiply: a new Triangle of three new Vectors
TriMultiply(heap, t, matrix) ==
    LET vs == TriVertices(heap, t)
    IN  TriResult(FALSE,
                  <<MatrixMultiply(vs[1], matrix), MatrixMultiply(vs[2], matrix),
                    MatrixMultiply(vs[3], matrix)>>,
                  t)

\* Triangle.Project: as Multiply, then each Vector divided by its w
TriProject(heap, t, projection) ==
    LET t1 == TriMultiply(heap, t, projection)
    IN  [t1 EXCEPT !.vs = <<Divide(t1.vs[1], t1.vs[1].w),
                            Divide(t1.vs[2], t1.vs[2].w),
                            Divide(t1.vs[3], t1.vs[3].w)>>]

\* Triangle.TranslateXYZ: offset is &Vector{x: x, y: y, z: z}
TriTranslateXYZ(heap, t, x, y, z) ==
    LET offset == QVec(Vec(x, y, z, 0))
        vs == TriVertices(heap, t)
    IN  TriResult(FALSE,
                  <<Add(vs[1], offset), Add(vs[2], offset), Add(vs[3], offset)>>,
                  t)

\* Projection(width, height, 90, near, far): math.Tan(90/360*math.Pi) is 1
Projection(width, height, near, far) ==
    LET a == Q(height, width)
        f == QI(1)
    IN  <<<<QMul(a, f), QI(0), QI(0), QI(0)>>,
          <<QI(0), f, QI(0), QI(0)>>,
          <<QI(0), QI(0), Q(far, far - near), Q(-far * near, far - near)>>,
          <<QI(0), QI(0), QI(1), QI(0)>>>>

\* Triangle.IsVisible: t.normalI < math.Pi/2
IsVisible(t) == AngleLess(t.normalI, HalfPi)

\* The vertices triangles are built from, and the view directions.
VertexInputs == {Vec(x, y, 0, w) : x \in {0, 1}, y \in {0, 1}, w \in {1, 2}}
ScreenInputs == {VNew(0, 0, 1), VNew(0, 0, -1), VNew(1, 0, 0), VNew(0, -1, 0)}

\* A model of three vertices and two faces over them, `f 1 2 3` and
\* `f 1 3 2`, as the loader builds it.
TriangleInit ==
    /\ verts \in {<<a, b, c>> : a, b, c \in VertexInputs}
    /\ tris = <<NewTriangle(1, 2, 3), NewTriangle(1, 3, 2)>>
    /\ triOp = "new"
    /\ sel = 1
    /\ screen = VNew(0, 0, 0)
    /\ visible = "unset"
    /\ tres = <<>>
    /\ objs = <<>>

TriangleIdle ==
    /\ verts = <<>>
    /\ tris = <<>>
    /\ triOp = "new"
    /\ sel = 1
    /\ screen = VNew(0, 0, 0)
    /\ visible = "unset"
    /\ tres = <<>>
    /\ objs = <<>>

\* tris[k].Normal(scr)
NormalOn(k, scr) ==
    /\ LET r == TriNormal(verts, tris[k], scr)
       IN  /\ verts' = r.heap
           /\ tris' = [tris EXCEPT ![k] = r.t]
           /\ sel' = k
           /\ screen' = scr
           /\ tres' = <<TriResult(TRUE, TriVertices(r.heap, r.t), r.t)>>
    /\ triOp' = "Normal"
    /\ visible' = "unset"
    /\ UNCHANGED objs
    /\ UNCHANGED notTriangleVars

\* t.Normal(screen)
CallNormal == \E k \in 1..Len(tris), scr \in ScreenInputs : NormalOn(k, scr)

\* t.IsVisible()
CallIsVisible ==
    /\ \E k \in 1..Len(tris) :
         /\ visible' = IsVisible(tris[k])
         /\ sel' = k
    /\ triOp' = "IsVisible"
    /\ UNCHANGED <<verts, tris, screen, tres, objs>>
    /\ UNCHANGED notTriangleVars

TriangleNext ==
    \/ CallNormal
    \/ CallIsVisible

\* The matrices, projections and offsets the methods are called with.
MatrixInputs == {Identity, ScaleXYZ(2, 1, 3), TranslateXYZ(1, 0, -2)}
ProjectionInputs == {Identity, Projection(2, 1, 1, 2), ScaleXYZ(1, 1, 0)}
OffsetInputs == {<<1, 0, 0>>, <<0, -1, 2>>}

\* t.Multiply(matrix)
CallMultiply ==
    /\ \E k \in 1..Len(tris), m \in MatrixInputs :
         /\ tres' = <<TriMultiply(verts, tris[k], m)>>
         /\ sel' = k
    /\ triOp' = "Multiply"
    /\ visible' = "unset"
    /\ UNCHANGED <<verts, tris, screen, objs>>
    /\ UNCHANGED notTriangleVars

\* t.Project(projection)
CallProject ==
    /\ \E k \in 1..Len(tris), m \in ProjectionInputs :
         /\ tres' = <<TriProject(verts, tris[k], m)>>
         /\ sel' = k
         /\ ma' = m
    /\ triOp' = "Project"
    /\ visible' = "unset"
    /\ UNCHANGED <<verts, tris, screen, objs>>
    /\ UNCHANGED <<canvasVars, configVars, loadVars, cam, mout, mop,
                   composeVars>>

\* t.TranslateXYZ(x, y, z)
CallTranslateXYZ ==
    /\ \E k \in 1..Len(tris), o \in OffsetInputs :
         /\ tres' = <<TriTranslateXYZ(verts, tris[k], o[1], o[2], o[3])>>
         /\ sel' = k
    /\ triOp' = "TranslateXYZ"
    /\ visible' = "unset"
    /\ UNCHANGED <<verts, tris, screen, objs>>
    /\ UNCHANGED notTriangleVars

\* A model of three vertices and the faces `f 1 2 3` and `f 1 3 2`.
TriangleOpsInit ==
    /\ verts \in {<<Vec(0, 0, 0, 1), b, c>> :
                    b \in {Vec(1, 0, 0, 1), Vec(1, 0, 0, 2)},
                    c \in {Vec(0, 1, 0, 1), Vec(1, 1, 0, 2)}}
    /\ tris = <<NewTriangle(1, 2, 3), NewTriangle(1, 3, 2)>>
    /\ triOp = "new"
    /\ sel = 1
    /\ screen = VNew(0, 0, 0)
    /\ visible = "unset"
    /\ tres = <<>>
    /\ objs = <<>>

TriangleOpsNext ==
    \/ CallNormal
    \/ CallMultiply
    \/ CallProject
    \/ CallTranslateXYZ

-----------------------------------------------------------------------------
(* LoadObject: the model loader *)

\* How many lines a model file has at most.
MaxLines == 4

\* A line is the sequence of its characters.
DigitChars == <<"0", "1", "2", "3", "4", "5", "6", "7", "8", "9">>
IsDigit(c) == \E i \in 1..10 : DigitChars[i] = c
DigitVal(c) == (CHOOSE i \in 1..10 : DigitChars[i] = c) - 1

\* The decimal text of an integer, as the files are written.
RECURSIVE FormatNat(_)
FormatNat(n) ==
    IF n < 10
      THEN <<DigitChars[n + 1]>>
      ELSE FormatNat(n \div 10) \o <<DigitChars[(n % 10) + 1]>>

FormatInt(n) == IF n < 0 THEN <<"-">> \o FormatNat(-n) ELSE FormatNat(n)

\* A directive: its prefix and its numeric fields; RenderLine is its line of
\* text, the fields separated by single spaces.
Directive(pre, nums) == [pre |-> pre, nums |-> nums]

RECURSIVE RenderFields(_)
RenderFields(nums) ==
    IF nums = <<>>
      THEN <<>>
      ELSE <<" ">> \o FormatInt(Head(nums)) \o RenderFields(Tail(nums))

RenderLine(d) == d.pre \o RenderFields(d.nums)

\* strings.TrimSpace
RECURSIVE TrimLeft(_)
TrimLeft(str) ==
    IF str # <<>> /\ Head(str) = " " THEN TrimLeft(Tail(str)) ELSE str

RECURSIVE TrimRight(_)
TrimRight(str) ==
    IF str # <<>> /\ str[Len(str)] = " "
      THEN TrimRight(SubSeq(str, 1, Len(str) - 1))
      ELSE str

TrimSpace(str) == TrimRight(TrimLeft(str))

\* strings.Split(str, " "): one field more than there are spaces
RECURSIVE SplitSpace(_)
SplitSpace(str) ==
    IF \A i \in 1..Len(str) : str[i] # " "
      THEN <<str>>
      ELSE LET i == CHOOSE j \in 1..Len(str) :
                      /\ str[j] = " "
                      /\ \A k \in 1..(j - 1) : str[k] # " "
           IN  <<SubSeq(str, 1, i - 1)>>
                 \o SplitSpace(SubSeq(str, i + 1, Len(str)))

\* The value of a sequence of decimal digits.
RECURSIVE DigitsVal(_)
DigitsVal(ds) ==
    IF ds = <<>>
      THEN 0
      ELSE 10 * DigitsVal(SubSeq(ds, 1, Len(ds) - 1)) + DigitVal(ds[Len(ds)])

AllDigits(ds) == ds # <<>> /\ \A i \in 1..Len(ds) : IsDigit(ds[i])

\* strconv.ParseInt(tok, 10, 32): an optional sign, then decimal digits
ParseInt(tok) ==
    LET signed == tok # <<>> /\ Head(tok) \in {"+", "-"}
        ds     == IF signed THEN Tail(tok) ELSE tok
    IN  IF AllDigits(ds) /\ Len(ds) <= 9
          THEN [ok  |-> TRUE,
                val |-> IF signed /\ Head(tok) = "-"
                          THEN -DigitsVal(ds) ELSE DigitsVal(ds)]
          ELSE [ok |-> FALSE, val |-> 0]

\* strconv.ParseFloat(tok, 32), for the integer literals the files here hold
ParseFloat(tok) == ParseInt(tok)

\* strconv.ParseUint(tok, 10, 8): decimal digits, no sign, at most 255
ParseUint8(tok) ==
    IF AllDigits(tok) /\ Len(tok) <= 9 /\ DigitsVal(tok) <= 255
      THEN [ok |-> TRUE, val |-> DigitsVal(tok)]
      ELSE [ok |-> FALSE, val |-> 0]

\* An error value: the line number it carries and what it complains about;
\* NoError is nil.
NoError == [line |-> 0, msg |-> "nil"]
Errorf(msg, lineNo) == [line |-> lineNo, msg |-> msg]

\* parseVector: the Vector of a `v` line, or nil and an error
parseVector(line, lineNo) ==
    LET xyzw == SplitSpace(TrimSpace(line))
        x == ParseFloat(xyzw[1])
        y == ParseFloat(xyzw[2])
        z == ParseFloat(xyzw[3])
        w == IF Len(xyzw) = 4 THEN ParseFloat(xyzw[4])
                              ELSE [ok |-> TRUE, val |-> 1]
        fail(msg) == [v |-> "nil", err |-> Errorf(msg, lineNo)]
    IN  IF Len(xyzw) < 3 THEN fail("too few values")
        ELSE IF Len(xyzw) > 4 THEN fail("too many values")
        ELSE IF ~x.ok THEN fail("bad x")
        ELSE IF ~y.ok THEN fail("bad Y")
        ELSE IF ~z.ok THEN fail("bad Z")
        ELSE IF ~w.ok THEN fail("bad W")
        ELSE [v |-> Vec(x.val, y.val, z.val, w.val), err |-> NoError]

\* FaceVertex as it would be had parseFace taken pts[i] for index i.
FaceVertexOffByOne(ps, i) ==
    IF i >= 0 /\ i < Len(ps)
      THEN [panic |-> FALSE, addr |-> i + 1]
      ELSE [panic |-> TRUE, addr |-> 0]

\* The address parseFace takes for index i: &pts[i-1]. pts[i-1] with i-1
\* outside 0..len(pts)-1 is a run-time panic.
FaceVertex(ps, i) ==
    IF i - 1 >= 0 /\ i - 1 < Len(ps)
      THEN [panic |-> FALSE, addr |-> i]
      ELSE [panic |-> TRUE, addr |-> 0]

\* parseFace: the Triangle of an `f` line, or nil and an error, or a panic
parseFace(ps, line, lineNo) ==
    LET xyz == SplitSpace(TrimSpace(line))
        i1 == ParseInt(xyz[1])
        i2 == ParseInt(xyz[2])
        i3 == ParseInt(xyz[3])
        a1 == FaceVertex(ps, i1.val)
        a2 == FaceVertex(ps, i2.val)
        a3 == FaceVertex(ps, i3.val)
        fail(msg) == [t |-> "nil", err |-> Errorf(msg, lineNo), panic |-> FALSE]
    IN  IF Len(xyz) # 3 THEN fail("bad face")
        ELSE IF ~i1.ok THEN fail("bad x")
        ELSE IF ~i2.ok THEN fail("bad Y")
        ELSE IF ~i3.ok THEN fail("bad Z")
        ELSE IF a1.panic \/ a2.panic \/ a3.panic
          THEN [t |-> "nil", err |-> NoError, panic |-> TRUE]
          ELSE [t     |-> NewTriangle(a1.addr, a2.addr, a3.addr),
                err   |-> NoError,
                panic |-> FALSE]

\* parseFaceColor: sets the color of the Triangle an `xc` line names
parseFaceColor(tl, line, lineNo) ==
    LET irgba == SplitSpace(TrimSpace(line))
        l == Len(irgba)
        i == ParseUint8(irgba[1])
        zero == [ok |-> TRUE, val |-> 0]
        r == IF l > 1 THEN ParseUint8(irgba[2]) ELSE zero
        g == IF l > 2 THEN ParseUint8(irgba[3]) ELSE zero
        b == IF l > 3 THEN ParseUint8(irgba[4]) ELSE zero
        a == IF l > 4 THEN ParseUint8(irgba[5]) ELSE [ok |-> TRUE, val |-> 255]
        fail(msg) == [ts |-> tl, err |-> Errorf(msg, lineNo)]
    IN  IF ~i.ok THEN fail("bad i")
        ELSE IF i.val < 1 \/ i.val > Len(tl) THEN fail("bad i range")
        ELSE IF ~r.ok THEN fail("bad r")
        ELSE IF ~g.ok THEN fail("bad g")
        ELSE IF ~b.ok THEN fail("bad b")
        ELSE IF ~a.ok THEN fail("bad a")
        ELSE [ts  |-> [tl EXCEPT ![i.val].color = <<r.val, g.val, b.val, a.val>>],
              err |-> NoError]

\* The body of LoadObject's loop for one line: what it appends to pts and ts,
\* the error it ends with, and whether it panics. line[:2] of a
\* one-character line is a run-time panic.
ScanLine(ps, tl, line, lineNo) ==
    LET same == [pts |-> ps, ts |-> tl, err |-> NoError, panic |-> FALSE]
        pre  == SubSeq(line, 1, 2)
    IN  IF Len(line) = 0 THEN same
        ELSE IF Len(line) < 2 THEN [same EXCEPT !.panic = TRUE]
        ELSE IF pre = <<"v", " ">>
          THEN LET r == parseVector(Tail(line), lineNo)
               IN  [same EXCEPT !.pts = Append(ps, r.v), !.err = r.err]
        ELSE IF pre = <<"f", " ">>
          THEN LET r == parseFace(ps, Tail(line), lineNo)
               IN  IF r.panic
                     THEN [same EXCEPT !.panic = TRUE]
                     ELSE [same EXCEPT !.ts = Append(tl, r.t), !.err = r.err]
        ELSE IF pre = <<"x", "c">>
          THEN LET r == parseFaceColor(tl, SubSeq(line, 3, Len(line)), lineNo)
               IN  [same EXCEPT !.ts = r.ts, !.err = r.err]
        ELSE same

\* The directives the files are made of.
VertexDirectives ==
    {Directive(<<"v">>, <<0, 0, 0>>), Directive(<<"v">>, <<1, 0, 0>>),
     Directive(<<"v">>, <<0, 1, 0>>), Directive(<<"v">>, <<-1, 2, 12, 3>>)}

FaceDirectives ==
    {Directive(<<"f">>, <<1, 2, 3>>), Directive(<<"f">>, <<2, 1, 2>>),
     Directive(<<"f">>, <<0, 1, 2>>), Directive(<<"f">>, <<1, 2, 4>>),
     Directive(<<"f">>, <<-1, 1, 2>>), Directive(<<"f">>, <<1, 2>>)}

Directives == VertexDirectives \cup FaceDirectives

\* The files: up to MaxLines directives in any order.
Sources == UNION {[1..n -> Directives] : n \in 1..MaxLines}

LoadInit ==
    /\ src \in Sources
    /\ lines = [i \in 1..Len(src) |-> RenderLine(src[i])]
    /\ lineCnt = 0
    /\ pts = <<>>
    /\ ts = <<>>
    /\ lstatus = "scanning"
    /\ lerr = NoError
    /\ obj = "none"

LoadIdle ==
    /\ src = <<>>
    /\ lines = <<>>
    /\ lineCnt = 0
    /\ pts = <<>>
    /\ ts = <<>>
    /\ lstatus = "scanning"
    /\ lerr = NoError
    /\ obj = "none"

\* LoadObject: one pass of `for scanner.Scan()`; an error ends the load with
\* `return nil, err`
LoadScan ==
    /\ lstatus = "scanning"
    /\ lineCnt < Len(lines)
    /\ lineCnt' = lineCnt + 1
    /\ LET r == ScanLine(pts, ts, lines[lineCnt + 1], lineCnt + 1)
       IN  IF r.panic
             THEN /\ lstatus' = "crashed"
                  /\ UNCHANGED <<pts, ts, lerr, obj>>
             ELSE /\ pts' = r.pts
                  /\ ts' = r.ts
                  /\ lerr' = r.err
                  /\ lstatus' = IF r.err = NoError THEN "scanning" ELSE "error"
                  /\ obj' = IF r.err = NoError THEN obj ELSE "nil"
    /\ UNCHANGED <<src, lines>>
    /\ UNCHANGED notLoadVars

\* LoadObject: return &Object{ts: ts}, nil
LoadReturn ==
    /\ lstatus = "scanning"
    /\ lineCnt = Len(lines)
    /\ lstatus' = "ok"
    /\ obj' = [ts |-> ts, offset |-> "nil"]
    /\ UNCHANGED <<src, lines, lineCnt, pts, ts, lerr>>
    /\ UNCHANGED notLoadVars

LoadNext ==
    \/ LoadScan
    \/ LoadReturn

\* ---- files with color and ignored lines ----

\* The most faces a file here declares, and the most lines after its faces.
MaxFaces == 256
MaxTail == 2

\* `xc i R G B [A]` lines, well formed and not.
ColorDirectives ==
    {Directive(<<"x", "c">>, <<1, 255, 0, 0>>),
     Directive(<<"x", "c">>, <<2, 0, 128, 7, 9>>),
     Directive(<<"x", "c">>, <<MaxFaces, 255, 0, 0>>),
     Directive(<<"x", "c">>, <<0, 1, 2, 3>>),
     Directive(<<"x", "c">>, <<1, 256, 0, 0>>)}

\* Comments, the prefixes LoadObject's switch has empty cases for, and
\* prefixes it has no case for; the last two are lines of one character.
IgnoredDirectives ==
    {Directive(<<"#">>, <<1>>),
     Directive(<<"v", "t">>, <<0, 1>>),
     Directive(<<"v", "n">>, <<0, 0, 1>>),
     Directive(<<"v", "p">>, <<1>>),
     Directive(<<"l">>, <<1, 2>>),
     Directive(<<"g">>, <<1>>),
     Directive(<<"o">>, <<>>),
     Directive(<<"#">>, <<>>)}

\* The head of a file: three vertices and n faces over them.
ModelHead(n) ==
    <<Directive(<<"v">>, <<0, 0, 0>>), Directive(<<"v">>, <<1, 0, 0>>),
      Directive(<<"v">>, <<0, 1, 0>>)>>
      \o [k \in 1..n |-> Directive(<<"f">>, <<1, 2, 3>>)]

FaceCounts == {1, 2, MaxFaces}

Tails ==
    UNION {[1..n -> ColorDirectives \cup IgnoredDirectives] : n \in 0..MaxTail}

ExtSources == {ModelHead(n) \o tail : n \in FaceCounts, tail \in Tails}

LoadInitExt ==
    /\ src \in ExtSources
    /\ lines = [i \in 1..Len(src) |-> RenderLine(src[i])]
    /\ lineCnt = 0
    /\ pts = <<>>
    /\ ts = <<>>
    /\ lstatus = "scanning"
    /\ lerr = NoError
    /\ obj = "none"

-----------------------------------------------------------------------------
(* Object: Rotate, Scale and Translate *)

\* How many Objects there are at most.
MaxObjects == 3

\* Triangle.NewInstane as it would be had it kept the three Vectors of t.
NewInstaneSharingVectors(heap, t) ==
    [heap |-> heap,
     t    |-> [t EXCEPT !.normalI = ZeroAngle, !.incident = ZeroAngle]]

\* Triangle.NewInstane: a new Triangle of three new Vectors, a copy of the
\* normal, the color, and incidence angles of zero
NewInstane(heap, t) ==
    LET n == Len(heap)
    IN  [heap |-> heap \o <<heap[t.vs[1]], heap[t.vs[2]], heap[t.vs[3]]>>,
         t    |-> [t EXCEPT !.vs = <<n + 1, n + 2, n + 3>>,
                            !.normalI = ZeroAngle,
                            !.incident = ZeroAngle]]

\* Object.newInstance: a new Object of new instances of o's Triangles and o's
\* offset. hv and ht are the Vectors and the Triangles by address; k Triangles
\* are copied already.
RECURSIVE NewInstances(_, _, _, _)
NewInstances(hv, ht, o, k) ==
    IF k = Len(o.ts)
      THEN [verts |-> hv, tris |-> ht, o |-> [ts |-> <<>>, offset |-> o.offset]]
      ELSE LET c == NewInstane(hv, ht[o.ts[k + 1]])
               r == NewInstances(c.heap, Append(ht, c.t), o, k + 1)
           IN  [r EXCEPT !.o.ts = <<Len(ht) + 1>> \o r.o.ts]

newInstance(hv, ht, o) == NewInstances(hv, ht, o, 0)

\* Triangle.applyMatrix: each of t.vs is replaced by a new Vector
TriApplyMatrix(hv, t, m) ==
    LET n == Len(hv)
        p(i) == WholeVec(MatrixMultiply(QVec(hv[t.vs[i]]), m))
    IN  [heap |-> hv \o <<p(1), p(2), p(3)>>,
         t    |-> [t EXCEPT !.vs = <<n + 1, n + 2, n + 3>>]]

\* Object.applyMatrix: Triangle.applyMatrix on each of o's Triangles from the
\* k-th on
RECURSIVE applyMatrix(_, _, _, _, _)
applyMatrix(hv, ht, o, m, k) ==
    IF k > Len(o.ts)
      THEN [verts |-> hv, tris |-> ht]
      ELSE LET a == TriApplyMatrix(hv, ht[o.ts[k]], m)
           IN  applyMatrix(a.heap, [ht EXCEPT ![o.ts[k]] = a.t], o, m, k + 1)

\* The angles, factors and offsets the methods are called with.
RotateInputs == {<<90, 0, 0>>, <<0, 180, 270>>}
ScaleInputs == {<<2, 1, 3>>}
TranslateInputs == {<<1, 2, 3>>}

\* o.Rotate(xDeg, yDeg, zDeg)
ObjRotate ==
    /\ Len(objs) < MaxObjects
    /\ \E i \in 1..Len(objs), d \in RotateInputs :
         LET c == newInstance(verts, tris, objs[i])
             a == applyMatrix(c.verts, c.tris, c.o, RotateXYZ(d[1], d[2], d[3]), 1)
         IN  /\ verts' = a.verts
             /\ tris' = a.tris
             /\ objs' = Append(objs, c.o)
             /\ sel' = i
    /\ triOp' = "Rotate"
    /\ visible' = "unset"
    /\ tres' = <<>>
    /\ UNCHANGED screen
    /\ UNCHANGED notTriangleVars

\* o.Scale(x, y, z)
ObjScale ==
    /\ Len(objs) < MaxObjects
    /\ \E i \in 1..Len(objs), f \in ScaleInputs :
         LET c == newInstance(verts, tris, objs[i])
             a == applyMatrix(c.verts, c.tris, c.o, ScaleXYZ(f[1], f[2], f[3]), 1)
         IN  /\ verts' = a.verts
             /\ tris' = a.tris
             /\ objs' = Append(objs, c.o)
             /\ sel' = i
    /\ triOp' = "Scale"
    /\ visible' = "unset"
    /\ tres' = <<>>
    /\ UNCHANGED screen
    /\ UNCHANGED notTriangleVars

\* o.Translate(x, y, z): the offset of the new Object is a new Vector
ObjTranslate ==
    /\ Len(objs) < MaxObjects
    /\ \E i \in 1..Len(objs), f \in TranslateInputs :
         LET c == newInstance(verts, tris, objs[i])
         IN  /\ verts' = Append(c.verts, Vec(f[1], f[2], f[3], 0))
             /\ tris' = c.tris
             /\ objs' = Append(objs, [c.o EXCEPT !.offset = Len(c.verts) + 1])
             /\ sel' = i
    /\ triOp' = "Translate"
    /\ visible' = "unset"
    /\ tres' = <<>>
    /\ UNCHANGED screen
    /\ UNCHANGED notTriangleVars

\* The Object LoadObject returns for three `v` lines, `f 1 2 3` and `f 1 3 2`:
\* its offset is nil, address 0.
ObjectInit ==
    /\ verts \in {<<Vec(0, 0, 0, 1), Vec(1, 0, 0, 1), c>> :
                    c \in {Vec(0, 1, 0, 1), Vec(1, 1, 0, 2)}}
    /\ tris = <<NewTriangle(1, 2, 3), NewTriangle(1, 3, 2)>>
    /\ objs = <<[ts |-> <<1, 2>>, offset |-> 0]>>
    /\ triOp = "new"
    /\ sel = 1
    /\ screen = VNew(0, 0, 0)
    /\ visible = "unset"
    /\ tres = <<>>

\* o.Triangles()[0].Normal(screen), looking down the z axis: Normal changes
\* the Vectors of its receiver in place.
ObjNormal == \E i \in 1..Len(objs) : NormalOn(objs[i].ts[1], VNew(0, 0, 1))

ObjectNext ==
    \/ ObjRotate
    \/ ObjScale
    \/ ObjTranslate
    \/ ObjNormal

-----------------------------------------------------------------------------
(* Matrix4X4: functions applied to inputs *)

\* The rows the matrices are made of.
RowInputs == {<<1, 0, 0, 0>>, <<0, 2, 0, 1>>, <<-1, 3, 0, 2>>}
Matrix4X4Inputs ==
    {Matrix4X4(<<a, b, c, d>>) : a \in RowInputs, b \in RowInputs,
                                 c \in RowInputs, d \in RowInputs}

\* Cameras: target is pos moved along a direction of whole length.
PosInputs == {Vec(0, 0, 0, 1), Vec(2, 1, 0, 1), Vec(1, 2, 3, 1)}
DirectionInputs == {Vec(0, 0, 2, 0), Vec(3, 4, 0, 0), Vec(0, 3, 4, 0)}
UpInputs == {Vec(0, 1, 0, 1), Vec(0, 0, 1, 1), Vec(1, 0, 0, 1)}
CameraInputs ==
    {[pos |-> QVec(p), target |-> QVec(Vec(p.x + d.x, p.y + d.y, p.z + d.z, 1)),
      up |-> QVec(u)] : p \in PosInputs, d \in DirectionInputs, u \in UpInputs}

MatrixInit ==
    /\ ma \in Matrix4X4Inputs
    /\ cam \in CameraInputs
    /\ mout = <<>>
    /\ mop = "none"

MatrixIdle ==
    /\ ma = Identity
    /\ cam = [pos |-> QVec(Vec(0, 0, 0, 1)), target |-> QVec(Vec(0, 0, 1, 1)),
              up |-> QVec(Vec(0, 1, 0, 1))]
    /\ mout = <<>>
    /\ mop = "none"

\* Identity().Multiply(ma)
CallIdentityMultiply ==
    /\ mout' = <<Matrix4X4Multiply(Identity, ma)>>
    /\ mop' = "Identity.Multiply"
    /\ UNCHANGED <<ma, cam>>
    /\ UNCHANGED notMatrixVars

\* ma.Multiply(Identity())
CallMultiplyIdentity ==
    /\ mout' = <<Matrix4X4Multiply(ma, Identity)>>
    /\ mop' = "Multiply.Identity"
    /\ UNCHANGED <<ma, cam>>
    /\ UNCHANGED notMatrixVars

\* LookAtMatrix(pos, target, up)
CallLookAtMatrix ==
    /\ mout' = <<LookAtMatrix(cam.pos, cam.target, cam.up)>>
    /\ mop' = "LookAtMatrix"
    /\ UNCHANGED <<ma, cam>>
    /\ UNCHANGED notMatrixVars

\* PointAt(pos, target, up)
CallPointAt ==
    /\ mout' = <<PointAt(cam.pos, cam.target, cam.up)>>
    /\ mop' = "PointAt"
    /\ UNCHANGED <<ma, cam>>
    /\ UNCHANGED notMatrixVars

MatrixNext ==
    \/ CallIdentityMultiply
    \/ CallMultiplyIdentity
    \/ CallLookAtMatrix
    \/ CallPointAt

-----------------------------------------------------------------------------
(* Matrix4X4.Multiply and Vector.MatrixMultiply: A and B applied to v *)

\* A Matrix4X4 of whole numbers times 2^e, and a Vector of the same kind.
F64Matrix(rows, e) == [r \in 1..4 |-> [c \in 1..4 |-> F64Scaled(rows[r][c], e)]]
F64Vec(x, y, z, w, e) ==
    Vec(F64Scaled(x, e), F64Scaled(y, e), F64Scaled(z, e), F64Scaled(w, e))

\* A translation combined with a shear, a permutation combined with a
\* scaling, and a shear.
PlainRows ==
    {<<<<1, 2, 0, 0>>, <<0, 1, 0, 3>>, <<-1, 0, 2, 0>>, <<0, 0, 0, 1>>>>,
     <<<<0, 1, 0, 0>>, <<2, 0, 0, 1>>, <<0, 0, 1, -1>>, <<1, 0, 0, 1>>>>,
     <<<<1, -1, 0, 0>>, <<0, 1, 0, 0>>, <<0, 0, 1, 0>>, <<0, 0, 0, 1>>>>}

\* The identity with 2^64 for its first entry and 1 next to it.
WideMatrix ==
    [F64Matrix(<<<<0, 1, 0, 0>>, <<0, 1, 0, 0>>, <<0, 0, 1, 0>>, <<0, 0, 0, 1>>>>, 0)
       EXCEPT ![1][1] = F64Scaled(1, 64)]

ComposeMatrixInputs ==
    {F64Matrix(rows, 0) : rows \in PlainRows}
      \cup {WideMatrix,
            F64Matrix(<<<<1, 2, 0, 0>>, <<0, 1, 0, 3>>, <<-1, 0, 2, 0>>,
                        <<0, 0, 0, 1>>>>, 1000),
            F64Matrix(<<<<0, 1, 0, 0>>, <<2, 0, 0, 1>>, <<0, 0, 1, -1>>,
                        <<1, 0, 0, 1>>>>, -1000)}

ComposeVectorInputs ==
    {F64Vec(1, 1, 0, 1, 0), F64Vec(2, -1, 3, 1, 0), F64Vec(0, 0, 1, 0, 0),
     F64Vec(3, 0, 1, 2, -1000)}

ComposeInit ==
    /\ ca \in ComposeMatrixInputs
    /\ cb \in ComposeMatrixInputs
    /\ cv \in ComposeVectorInputs
    /\ composed = <<>>
    /\ stepwise = <<>>

ComposeIdle ==
    /\ ca = F64Matrix(<<<<1, 0, 0, 0>>, <<0, 1, 0, 0>>, <<0, 0, 1, 0>>,
                        <<0, 0, 0, 1>>>>, 0)
    /\ cb = ca
    /\ cv = F64Vec(0, 0, 0, 1, 0)
    /\ composed = <<>>
    /\ stepwise = <<>>

\* v.MatrixMultiply(A.Multiply(B))
CallComposed ==
    /\ composed' = <<F64MatrixMultiply(cv, F64Matrix4X4Multiply(ca, cb))>>
    /\ UNCHANGED <<ca, cb, cv, stepwise>>
    /\ UNCHANGED notComposeVars

\* v.MatrixMultiply(B).MatrixMultiply(A)
CallStepwise ==
    /\ stepwise' = <<F64MatrixMultiply(F64MatrixMultiply(cv, cb), ca)>>
    /\ UNCHANGED <<ca, cb, cv, composed>>
    /\ UNCHANGED notComposeVars

ComposeNext ==
    \/ CallComposed
    \/ CallStepwise

-----------------------------------------------------------------------------
(* Specifications *)

\* The run loop of one Open, from construction of the Canvas on.
Init == CanvasInit /\ ConfigInit /\ TriangleIdle /\ LoadIdle /\ MatrixIdle /\ ComposeIdle
Spec == Init /\ [][Next]_vars

\* The same under fair scheduling: each goroutine that can take a step
\* eventually takes one, and the ticker keeps ticking.
Fairness ==
    /\ WF_vars(EventPollNext)
    /\ WF_vars(TickNext)
    /\ WF_vars(TimerTick)
    /\ \A p \in Callers : WF_vars(QuitNext(p))
FairSpec == Init /\ [][Next]_vars /\ Fairness

\* The options of one Open, applied in order to the default configuration.
InitConfig == CanvasInit /\ ConfigInit /\ TriangleIdle /\ LoadIdle /\ MatrixIdle /\ ComposeIdle
SpecConfig == InitConfig /\ [][ConfigNext]_vars

\* Normal and IsVisible on a Triangle as the loader builds it.
InitTriangle == CanvasInit /\ ConfigInit /\ TriangleInit /\ LoadIdle /\ MatrixIdle /\ ComposeIdle
SpecTriangle == InitTriangle /\ [][TriangleNext]_vars

\* LoadObject on a file of up to MaxLines lines.
InitLoad == CanvasInit /\ ConfigInit /\ TriangleIdle /\ LoadInit /\ MatrixIdle /\ ComposeIdle
SpecLoad == InitLoad /\ [][LoadNext]_vars

\* LoadObject on a file of vertices and faces followed by up to MaxTail color
\* or ignored lines.
InitLoadExt ==
    CanvasInit /\ ConfigInit /\ TriangleIdle /\ LoadInitExt /\ MatrixIdle /\ ComposeIdle
SpecLoadExt == InitLoadExt /\ [][LoadNext]_vars

\* Normal, Multiply, Project and TranslateXYZ on the Triangles of a model.
InitTriangleOps ==
    CanvasInit /\ ConfigInit /\ TriangleOpsInit /\ LoadIdle /\ MatrixIdle /\ ComposeIdle
SpecTriangleOps == InitTriangleOps /\ [][TriangleOpsNext]_vars

\* Rotate, Scale and Translate on a loaded Object and on what they return.
InitObject == CanvasInit /\ ConfigInit /\ ObjectInit /\ LoadIdle /\ MatrixIdle /\ ComposeIdle
SpecObject == InitObject /\ [][ObjectNext]_vars

\* The Matrix4X4 functions on the matrices and cameras above.
InitMatrix == CanvasInit /\ ConfigInit /\ TriangleIdle /\ LoadIdle /\ MatrixInit /\ ComposeIdle
SpecMatrix == InitMatrix /\ [][MatrixNext]_vars

\* The two ways of applying A and B to v, on the float64 inputs above.
InitCompose ==
    CanvasInit /\ ConfigInit /\ TriangleIdle /\ LoadIdle /\ MatrixIdle /\ ComposeInit
SpecCompose == InitCompose /\ [][ComposeNext]_vars

-----------------------------------------------------------------------------
(* Properties of the run loop *)

\* A step of the program's own activities: everything but a new external call.
ProgramStep ==
    \/ EventPollNext
    \/ TickNext
    \/ TimerTick
    \/ \E p \in Callers : QuitNext(p)

\* The event dispatch (handler.Events plus the default quit handling) is in
\* progress.
InDispatch == pcE \in {"events", "quit", "unlock"}

\* The tick body (OnUpdate, OnDraw, Present) is in progress.
InTickBody == pcT \in {"update", "draw", "present", "unlock", "panic_unlock"}

\* C1: a Quit called from the event dispatch (lock held, state Running) always
\* completes: no reachable state is a deadlock, that is, while the event-poll
\* activity is inside Quit some activity of the program can take a step.
C1_QuitFromDispatchNeverDeadlocks ==
    (qpc["E"] # "idle" /\ ~crashed) => ENABLED ProgramStep

\* C2: an event dispatch and a tick body are never in progress at the same
\* time, and each runs holding the Canvas lock.
C2_DispatchAndTickExclusive ==
    /\ ~(InDispatch /\ InTickBody)
    /\ InDispatch => lock = "E"
    /\ InTickBody => lock = "T"

\* C2 witness: a tick was taken while an event dispatch holds the lock, and
\* the tick body waits.
C2_Witness == pcT = "lock" /\ pcE = "events" /\ lock = "E"

\* C3: the lifecycle state changes only by Initialized->Running,
\* Running->Terminating and Terminating->Stopped; Stopped is terminal.
C3_LifecycleSteps ==
    [][state' # state =>
         <<state, state'>> \in {<<"initialized", "running">>,
                                <<"running", "terminating">>,
                                <<"terminating", "stopped">>}]_vars

\* C4: a Quit call that finds the state not Running returns without blocking
\* and leaves the lifecycle state, the tick timer, the shutdown channel and
\* the completion counter as they were.
C4_QuitNoOpWhenNotRunning ==
    /\ [](\A p \in Callers :
            /\ (qpc[p] = "check" /\ ~crashed) => ENABLED QuitCheck(p)
            /\ (qpc[p] = "already" /\ ~crashed) => ENABLED QuitReturn(p))
    /\ [][\A p \in Callers :
            /\ (qpc[p] = "check" /\ state # "running" /\ qpc'[p] # "check")
                 => /\ qpc'[p] = "already"
                    /\ UNCHANGED <<state, timer, tickBuf, done, glwg>>
            /\ (qpc[p] = "already" /\ qpc'[p] # "already")
                 => /\ qpc'[p] = "idle"
                    /\ UNCHANGED <<state, timer, tickBuf, done, glwg>>]_vars

\* C4 witness: the second of two successive external Quit calls is in the
\* no-op branch, the state being Stopped.
C4_Witness == qpc["X"] = "already" /\ xCalls = 2 /\ state = "stopped"

\* C5: whenever the state is Stopped the tick goroutine has exited and has
\* signalled its completion, and an exited tick goroutine never runs again.
C5_StoppedMeansTickExited ==
    /\ [](state = "stopped" => (pcT = "exited" /\ glwg = 0))
    /\ [][pcT = "exited" => pcT' = "exited"]_vars

\* C5 witness: the Quit of the event dispatch has set Stopped after the tick
\* goroutine's exit.
C5_Witness == state = "stopped" /\ pcT = "exited" /\ qpc["E"] = "finished"

\* C6: handler.Destroy is invoked only once the state is Stopped and the
\* tick goroutine has exited.
C6_DestroyOnlyAfterStopped ==
    (pcE = "destroy" \/ destroyCalls > 0)
        => (state = "stopped" /\ pcT = "exited")

-----------------------------------------------------------------------------
(* Properties of the configuration options *)

\* The allow-list of the renderer flags: software, accelerated, vsync,
\* target-texture.
RendererAllowList ==
    BitOr(BitOr(RENDERER_SOFTWARE, RENDERER_ACCELERATED),
          BitOr(RENDERER_PRESENTVSYNC, RENDERER_TARGETTEXTURE))

\* The allow-list of the eleven window flags.
WindowAllowList ==
    LET masks == <<WINDOW_FULLSCREEN, WINDOW_FULLSCREEN_DESKTOP, WINDOW_OPENGL,
                   WINDOW_VULKAN, WINDOW_HIDDEN, WINDOW_BORDERLESS,
                   WINDOW_RESIZABLE, WINDOW_MINIMIZED, WINDOW_MAXIMIZED,
                   WINDOW_INPUT_GRABBED, WINDOW_ALLOW_HIGHDPI>>
        OrUpTo[i \in 0..Len(masks)] ==
            IF i = 0 THEN 0 ELSE BitOr(OrUpTo[i - 1], masks[i])
    IN  OrUpTo[Len(masks)]

\* C7: the renderer-flags option stores exactly the allow-listed bits of its
\* argument, and the window-flags option does the same against its allow-list.
C7_FlagsKeepAllowListedBits ==
    /\ lastOpt.name = "RendererFlags"
         => cfg.rendererFlags = BitAnd(lastOpt.arg[1], RendererAllowList)
    /\ lastOpt.name = "WindowFlags"
         => cfg.windowFlags = BitAnd(lastOpt.arg[1], WindowAllowList)

-----------------------------------------------------------------------------
(* Properties of the Triangle *)

\* C8: IsVisible returns true exactly when the view incidence, the angle
\* between the normal and the view direction given to Normal, is below pi/2.
C8_VisibleIffViewIncidenceAcute ==
    triOp = "IsVisible" => (visible = AngleLess(tris[sel].incident, HalfPi))

-----------------------------------------------------------------------------
(* Properties of the loader *)

IsVertexDirective(d) == d.pre = <<"v">> /\ Len(d.nums) \in {3, 4}
IsFaceDirective(d) == d.pre = <<"f">> /\ Len(d.nums) = 3

\* The number of vertices declared on the lines before line k.
VerticesBefore(k) ==
    Cardinality({j \in 1..(k - 1) : IsVertexDirective(src[j])})

\* Line k is a face line of three integers one of which is no index of a
\* vertex declared earlier.
BadFaceIndex(k) ==
    /\ IsFaceDirective(src[k])
    /\ \E j \in 1..3 : src[k].nums[j] \notin 1..VerticesBefore(k)

\* Every line is a vertex line or a face line over earlier vertices.
WellFormed ==
    \A k \in 1..Len(src) :
        \/ IsVertexDirective(src[k])
        \/ IsFaceDirective(src[k]) /\ ~BadFaceIndex(k)

\* The vertex a `v` directive declares: w is 1 when it has three fields.
DeclaredVertex(d) ==
    Vec(d.nums[1], d.nums[2], d.nums[3],
        IF Len(d.nums) = 4 THEN d.nums[4] ELSE 1)

VertexLines == SelectSeq(src, IsVertexDirective)
FaceLines == SelectSeq(src, IsFaceDirective)

\* C9: a face line with an index that names no earlier vertex makes the load
\* return an error carrying that line's number, and no model.
C9_BadFaceIndexIsParseError ==
    \A k \in 1..Len(src) :
        (lineCnt = k /\ BadFaceIndex(k))
            => (lstatus = "error" /\ lerr.line = k /\ obj = "nil")

WellFormedColor(d, n) ==
    /\ d.pre = <<"x", "c">>
    /\ Len(d.nums) \in {4, 5}
    /\ d.nums[1] \in 1..n
    /\ \A j \in 2..Len(d.nums) : d.nums[j] \in 0..255

\* The color `xc i R G B [A]` names: A is 255 when omitted.
ColorOf(d) ==
    <<d.nums[2], d.nums[3], d.nums[4],
      IF Len(d.nums) = 5 THEN d.nums[5] ELSE 255>>

\* C11: scanning a well-formed `xc i R G B [A]` line whose i is between 1 and
\* the number of faces declared so far returns no error, sets the color of
\* triangle i to (R, G, B, A) with A = 255 when omitted, and changes no other
\* triangle and no vertex.
C11_ColorLineSetsThatTriangleOnly ==
    [][(/\ lstatus = "scanning"
        /\ lineCnt < Len(src)
        /\ WellFormedColor(src[lineCnt + 1], Len(ts)))
       => (/\ lstatus' = "scanning"
           /\ lerr' = NoError
           /\ pts' = pts
           /\ ts' = [ts EXCEPT ![src[lineCnt + 1].nums[1]].color =
                                  ColorOf(src[lineCnt + 1])])]_vars

\* A comment, a recognized-but-ignored line or a line of unrecognized prefix.
IsIgnoredDirective(d) == d \in IgnoredDirectives

\* C12: scanning a non-empty line that is a comment, has an ignored prefix or
\* an unrecognized prefix gives no error and no crash, leaves the vertices
\* and triangles as they were, and the load goes on.
C12_IgnoredLineIsSkipped ==
    [][(/\ lstatus = "scanning"
        /\ lineCnt < Len(src)
        /\ IsIgnoredDirective(src[lineCnt + 1]))
       => (/\ lstatus' = "scanning"
           /\ lerr' = NoError
           /\ pts' = pts
           /\ ts' = ts)]_vars

-----------------------------------------------------------------------------
(* Properties of the Triangle methods and of Object *)

\* The methods of Triangle that return a Triangle.
TriangleMethods == {"Normal", "Multiply", "Project", "TranslateXYZ"}

\* C13: Normal, Multiply, Project and TranslateXYZ leave their receiver as it
\* was (its Vectors, normal, incidence angles and color), change no Vector
\* another Triangle of the model shares with it, and return a Triangle other
\* than the receiver.
C13_MethodsLeaveReceiverUnchanged ==
    [][triOp' \in TriangleMethods
       => (/\ verts' = verts
           /\ tris' = tris
           /\ ~tres'[1].self)]_vars

\* The Vector p divided by its w: (x/w, y/w, z/w) with w kept, and for w = 0
\* p's x, y, z with w = 1.
PerspectiveDivide(p) ==
    IF p.w = QI(0)
      THEN Vec(p.x, p.y, p.z, QI(1))
      ELSE Vec(QDiv(p.x, p.w), QDiv(p.y, p.w), QDiv(p.z, p.w), p.w)

Finite(v) == v.x.d # 0 /\ v.y.d # 0 /\ v.z.d # 0 /\ v.w.d # 0

\* The Vector the projection ma makes of the i-th Vector of the receiver.
Projected(i) == MatrixMultiply(QVec(verts[tris[sel].vs[i]]), ma)

\* C16: Project returns, for each Vector v of the Triangle, p = P * v divided
\* by p.w, and p with w = 1 where p.w is 0; no coordinate of the result is
\* the outcome of a division by zero.
C16_ProjectDividesByWOrOne ==
    triOp = "Project"
      => \A i \in 1..3 : /\ tres[1].vs[i] = PerspectiveDivide(Projected(i))
                         /\ Finite(tres[1].vs[i])

C16_Witness ==
    /\ triOp = "Project"
    /\ Projected(1).w = QI(0)
    /\ Projected(2).x # QI(0)
    /\ tres[1].vs[2] = [Projected(2) EXCEPT !.w = QI(1)]

\* The Vectors and the Triangles an Object reaches.
ObjectTriangles(o) == {o.ts[k] : k \in 1..Len(o.ts)}
ObjectVectors(ht, o) ==
    UNION {{ht[a].vs[1], ht[a].vs[2], ht[a].vs[3]} : a \in ObjectTriangles(o)}

\* An Object by value: the coordinates and color of its Triangles in order,
\* and its offset.
ObjectValue(hv, ht, o) ==
    [ts     |-> [k \in 1..Len(o.ts) |->
                   [vs    |-> <<hv[ht[o.ts[k]].vs[1]], hv[ht[o.ts[k]].vs[2]],
                                hv[ht[o.ts[k]].vs[3]]>>,
                    color |-> ht[o.ts[k]].color]],
     offset |-> IF o.offset = 0 THEN <<>> ELSE <<hv[o.offset]>>]

NoSharedVectors ==
    \A i, j \in 1..Len(objs) :
        i # j => /\ ObjectVectors(tris, objs[i]) \cap ObjectVectors(tris, objs[j]) = {}
                 /\ ObjectTriangles(objs[i]) \cap ObjectTriangles(objs[j]) = {}

\* C14: Rotate, Scale and Translate leave every Object there is unchanged by
\* value (coordinates, colors, count and order of its Triangles, and its
\* offset); no two Objects share a Vector or a Triangle, and a change made
\* in place to a Triangle of one Object changes no other Object.
C14_ObjectMethodsCopy ==
    /\ []NoSharedVectors
    /\ [][\A i \in 1..Len(objs) :
            (triOp' \in {"Rotate", "Scale", "Translate"} \/ sel' \notin ObjectTriangles(objs[i]))
              => ObjectValue(verts', tris', objs'[i]) = ObjectValue(verts, tris, objs[i])]_vars

C14_Witness ==
    /\ Len(objs) = MaxObjects
    /\ objs[3].offset # 0
    /\ triOp = "Normal"
    /\ sel \in ObjectTriangles(objs[2])
    /\ ObjectValue(verts, tris, objs[2]).ts # ObjectValue(verts, tris, objs[1]).ts

-----------------------------------------------------------------------------
(* Properties of Matrix4X4 *)

\* C15: Identity().Multiply(M) and M.Multiply(Identity()) equal M entry by
\* entry, and M is as it was.
C15_IdentityIsNeutral ==
    mop \in {"Identity.Multiply", "Multiply.Identity"}
      => \A r \in 1..4 : \A c \in 1..4 : mout[1][r][c] = ma[r][c]

C15_Witness ==
    /\ mop = "Multiply.Identity"
    /\ ma = Matrix4X4(<<<<0, 2, 0, 1>>, <<-1, 3, 0, 2>>, <<1, 0, 0, 0>>, <<0, 2, 0, 1>>>>)
    /\ mout = <<ma>>

\* The basis of a camera is orthonormal: no coordinate of it is the outcome
\* of a division by zero.
BasisDefined ==
    /\ Finite(NewForward(cam.pos, cam.target))
    /\ Finite(NewUp(cam.pos, cam.target, cam.up))
    /\ Finite(NewRight(cam.pos, cam.target, cam.up))

\* C17: the fourth row of LookAtMatrix(pos, target, up) is
\* (-dot(pos, right), -dot(pos, up'), -dot(pos, forward), 1), and the product
\* of PointAt and LookAtMatrix for the same arguments is the identity.
C17_LookAtInvertsPointAt ==
    (mop = "LookAtMatrix" /\ BasisDefined)
      => /\ mout[1][4] =
              <<QNeg(DotProduct(cam.pos, NewRight(cam.pos, cam.target, cam.up))),
                QNeg(DotProduct(cam.pos, NewUp(cam.pos, cam.target, cam.up))),
                QNeg(DotProduct(cam.pos, NewForward(cam.pos, cam.target))),
                QI(1)>>
         /\ Matrix4X4Multiply(PointAt(cam.pos, cam.target, cam.up), mout[1])
              = Identity

-----------------------------------------------------------------------------
(* Properties of the run loop: handler calls, panics and start-up *)

\* C18: handler.Init is called once, before the tick activity is launched and
\* before any Events, OnUpdate or OnDraw; handler.Destroy is called at most
\* once, after the event-poll loop has ended.
C18_InitOnceDestroyAtMostOnce ==
    /\ initCalls <= 1
    /\ (pcG # "notstarted" \/ pcE \in {"events", "unlock"}) => initCalls = 1
    /\ destroyCalls <= 1
    /\ destroyCalls = 1 => pcE \in {"teardown", "done"}

\* C19: when OnUpdate or OnDraw has panicked in a tick with the state Running
\* and the panic is recovered, the Quit of the panic handler completes: the
\* state eventually is Stopped.
C19_PanicQuitCompletes ==
    (pcT = "recover" /\ state = "running") ~> (state = "stopped")

\* The tick goroutine's worker is counted: gameLoop is past c.glwg.Add(1).
WorkerRegistered == pcG \notin {"notstarted", "add"}

\* C20: whenever a Quit is at c.frameRateTimer.Stop() the timer has been
\* created, and whenever a Quit is at c.glwg.Wait() the tick worker has been
\* counted; no Quit faults on a missing timer.
C20_QuitFindsTimerAndWorker ==
    /\ ~crashed
    /\ \A p \in Callers :
         /\ qpc[p] = "stop" => timer # "nil"
         /\ qpc[p] = "wait" => WorkerRegistered

-----------------------------------------------------------------------------
(* Properties of composition *)

\* Both results are there.
BothApplied == composed # <<>> /\ stepwise # <<>>

\* v == v1 in all four components
F64VecEqual(v, v1) ==
    /\ F64Equal(v.x, v1.x)
    /\ F64Equal(v.y, v1.y)
    /\ F64Equal(v.z, v1.z)
    /\ F64Equal(v.w, v1.w)

\* No sum or product that v went through was rounded, overflowed or
\* underflowed.
ExactlyComputed(v) == v.x.exact /\ v.y.exact /\ v.z.exact /\ v.w.exact

\* C21 as stated: for all A, B and v, v.MatrixMultiply(A.Multiply(B)) equals
\* v.MatrixMultiply(B).MatrixMultiply(A) in all four components.
C21_ComposedEqualsStepwise ==
    BothApplied => F64VecEqual(composed[1], stepwise[1])

\* C21 as amended: the two are equal in all four components whenever every
\* product and sum of both computations is exact in float64.
C21_ComposedEqualsStepwiseWhenExact ==
    (BothApplied /\ ExactlyComputed(composed[1]) /\ ExactlyComputed(stepwise[1]))
      => F64VecEqual(composed[1], stepwise[1])

\* Exact results for an A and a B that do not commute: B applied after A
\* gives (2, 1, 3, 1), A applied after B gives (9, 14, 5, 3).
C21_Witness ==
    /\ BothApplied
    /\ cv = F64Vec(2, -1, 3, 1, 0)
    /\ ExactlyComputed(composed[1])
    /\ ExactlyComputed(stepwise[1])
    /\ F64VecEqual(F64MatrixMultiply(F64MatrixMultiply(cv, ca), cb),
                   F64Vec(2, 1, 3, 1, 0))
    /\ F64VecEqual(stepwise[1], F64Vec(9, 14, 5, 3, 0))
    /\ F64VecEqual(composed[1], F64Vec(9, 14, 5, 3, 0))

====
